---- MODULE Spec2Model ----
(***************************************************************************)
(* Model of the defaults-file parser (internal/parser), the type inferrer  *)
(* and the filtering utilities of saltyorg/docs-automation.                *)
(*                                                                         *)
(* Go strings are TLA+ strings; Len, \o and SubSeq act on them character   *)
(* by character.  Go slices are sequences; Go indices are 0-based, so the  *)
(* i-th Go element of a slice s is s[i + 1].                               *)
(***************************************************************************)
EXTENDS Integers, Sequences, FiniteSets, TLC

VARIABLES lines, lineNum, state, role, lookups, scanner, op, args, ret

vars == <<lines, lineNum, state, role, lookups, scanner, op, args, ret>>

-----------------------------------------------------------------------------
(* Go's strings package and the regular expressions of the parser.         *)

Char(s, i) == SubSeq(s, i, i)

\* s[i:] for a 0-based Go index i
From(s, i) == SubSeq(s, i + 1, Len(s))

HasPrefix(s, p) == Len(s) >= Len(p) /\ SubSeq(s, 1, Len(p)) = p

HasSuffix(s, p) == Len(s) >= Len(p) /\ SubSeq(s, Len(s) - Len(p) + 1, Len(s)) = p

Contains(s, sub) == \E i \in 1..(Len(s) - Len(sub) + 1) : SubSeq(s, i, i + Len(sub) - 1) = sub

TrimPrefix(s, p) == IF HasPrefix(s, p) THEN From(s, Len(p)) ELSE s

TrimSuffix(s, p) == IF HasSuffix(s, p) THEN SubSeq(s, 1, Len(s) - Len(p)) ELSE s

\* the white space of strings.TrimSpace and of \s
SpaceChars == {" ", "\t", "\n", "\r", "\f"}

IndentChars == {" ", "\t"}

\* number of characters of s, from the i-th one on, that are in set
RECURSIVE RunFrom(_, _, _)
RunFrom(s, i, set) ==
    IF i > Len(s) \/ Char(s, i) \notin set THEN 0 ELSE 1 + RunFrom(s, i + 1, set)

\* number of characters of s, from the i-th one backwards, that are in set
RECURSIVE RunBack(_, _, _)
RunBack(s, i, set) ==
    IF i < 1 \/ Char(s, i) \notin set THEN 0 ELSE 1 + RunBack(s, i - 1, set)

\* number of leading characters of s that are in set
LeadingRun(s, set) == RunFrom(s, 1, set)

\* number of trailing characters of s that are in set
TrailingRun(s, set) == RunBack(s, Len(s), set)

TrimLeft(s, set) == From(s, LeadingRun(s, set))

TrimSpace(s) ==
    LET l == TrimLeft(s, SpaceChars)
    IN SubSeq(l, 1, Len(l) - TrailingRun(l, SpaceChars))

UpperLetters == "ABCDEFGHIJKLMNOPQRSTUVWXYZ"

LowerLetters == "abcdefghijklmnopqrstuvwxyz"

Digits == {"0", "1", "2", "3", "4", "5", "6", "7", "8", "9"}

Letters == {Char(UpperLetters, i) : i \in 1..26} \cup {Char(LowerLetters, i) : i \in 1..26}

LowerChar(c) ==
    IF \E i \in 1..26 : Char(UpperLetters, i) = c
    THEN Char(LowerLetters, CHOOSE i \in 1..26 : Char(UpperLetters, i) = c)
    ELSE c

RECURSIVE ToLower(_)
ToLower(s) == IF s = "" THEN "" ELSE LowerChar(Char(s, 1)) \o ToLower(From(s, 1))

RECURSIVE Join(_, _)
Join(elems, sep) ==
    IF Len(elems) = 0 THEN ""
    ELSE IF Len(elems) = 1 THEN elems[1]
    ELSE elems[1] \o sep \o Join(Tail(elems), sep)

\* strings.Split(s, sep) for a one-character separator
RECURSIVE Split(_, _)
Split(s, sep) ==
    IF \E i \in 1..Len(s) : Char(s, i) = sep
    THEN LET i == CHOOSE k \in 1..Len(s) : Char(s, k) = sep /\ \A j \in 1..(k - 1) : Char(s, j) # sep
         IN <<SubSeq(s, 1, i - 1)>> \o Split(From(s, i), sep)
    ELSE <<s>>

AllIn(s, set) == \A i \in 1..Len(s) : Char(s, i) \in set

\* ^#{10,}$
sectionHeaderRe(s) == Len(s) >= 10 /\ AllIn(s, {"#"})

Min(a, b) == IF a <= b THEN a ELSE b

Max(a, b) == IF a >= b THEN a ELSE b

\* ^#\s*(.+?)<tail> on s = "#" \o r, where <tail> matches r[p:] exactly for
\* the offsets p in w..d: the first \s* is greedy and takes k characters,
\* the most that leave the lazy group one character before an offset of the
\* tail; the group then ends at the first such offset.  <<>> is no match,
\* <<group 1>> a match.
LazyGroup(r, w, d) ==
    IF d < 1 THEN <<>>
    ELSE LET k == Min(LeadingRun(r, SpaceChars), d - 1)
             p == Max(w, k + 1)
         IN <<SubSeq(r, k + 1, p)>>

\* ^#\s*(.+?)\s*$
sectionNameRe(s) ==
    IF ~HasPrefix(s, "#") THEN <<>>
    ELSE LET r == From(s, 1)
         IN LazyGroup(r, Len(r) - TrailingRun(r, SpaceChars), Len(r))

\* ^#\s*(.+?)\s*-\s*<keyword>\s*$
SubsectionMarker(s, keyword) ==
    IF ~HasPrefix(s, "#") THEN <<>>
    ELSE LET r == From(s, 1)
             e == Len(r) - TrailingRun(r, SpaceChars)
         IN IF ~HasSuffix(SubSeq(r, 1, e), keyword) THEN <<>>
            ELSE LET b == e - Len(keyword)
                     d == b - RunBack(r, b, SpaceChars)
                 IN IF d < 1 \/ Char(r, d) # "-" THEN <<>>
                    ELSE LazyGroup(r, d - 1 - RunBack(r, d - 1, SpaceChars), d - 1)

\* ^#\s*(.+?)\s*-\s*Sub-section Start\s*$
subsectionStartRe(s) == SubsectionMarker(s, "Sub-section Start")

\* ^#\s*(.+?)\s*-\s*Sub-section End\s*$
subsectionEndRe(s) == SubsectionMarker(s, "Sub-section End")

IdentChars == Letters \cup Digits \cup {"_"}

\* ^([a-zA-Z_][a-zA-Z0-9_]*)\s*:\s*(.*)$ : <<>> for no match, <<name, value>> for a match
variableRe(s) ==
    LET n    == LeadingRun(s, IdentChars)
        rest == TrimLeft(From(s, n), SpaceChars)
    IN IF /\ n >= 1
          /\ Char(s, 1) \notin Digits
          /\ HasPrefix(rest, ":")
       THEN <<SubSeq(s, 1, n), TrimLeft(From(rest, 1), SpaceChars)>>
       ELSE <<>>

\* (?i)^Skip docs
skipDocsRe(s) == HasPrefix(ToLower(s), "skip docs")

\* (?i)^Do not edit or override using the inventory
skipInventoryRe(s) == HasPrefix(ToLower(s), "do not edit or override using the inventory")

\* ^\[GLOBAL\]\s*
globalPrefixRe(s) == HasPrefix(s, "[GLOBAL]")

noGlobalPrefixReAnyLine(s) == Contains(s, "[NOGLOBAL]")

\* ^\[NOGLOBAL\]\s*
noGlobalPrefixRe(s) == HasPrefix(s, "[NOGLOBAL]")

\* re.ReplaceAllString(s, "") for the two anchored prefix expressions
StripTag(s, tag) == IF HasPrefix(s, tag) THEN TrimLeft(From(s, Len(tag)), SpaceChars) ELSE s

-----------------------------------------------------------------------------
(* internal/parser: ParseFile and its helpers.                             *)

\* lines[i] of the Go slice
Line(ls, i) == ls[i + 1]

Indented(line) == Len(line) > 0 /\ Char(line, 1) \in IndentChars

isMetaSection(name) ==
    LET lower == ToLower(name)
    IN \/ Contains(lower, "title:")
       \/ Contains(lower, "author")
       \/ Contains(lower, "url:")
       \/ Contains(lower, "gnu general public license")
       \/ Contains(lower, "copyright")

shouldSkipVariable(name, comment) ==
    \/ Contains(name, "_paths_folders_list")
    \/ skipDocsRe(comment)
    \/ skipInventoryRe(comment)

\* isSignificantlyIndented asking for more than two columns of indentation
isSignificantlyIndentedByTwo(line, baseLine) ==
    LeadingRun(line, IndentChars) > LeadingRun(baseLine, IndentChars) + 2

isSignificantlyIndented(line, baseLine) ==
    LeadingRun(line, IndentChars) > LeadingRun(baseLine, IndentChars)

\* BlockScalarLoop without the test for leading white space
RECURSIVE BlockScalarLoopAnyLine(_, _, _)
BlockScalarLoopAnyLine(ls, currentLine, valueLines) ==
    IF currentLine >= Len(ls) \/ Line(ls, currentLine) = "" THEN <<valueLines, currentLine>>
    ELSE BlockScalarLoopAnyLine(ls, currentLine + 1, Append(valueLines, Line(ls, currentLine)))

\* the block-scalar loop of parseMultilineValue: <<valueLines, currentLine>>
RECURSIVE BlockScalarLoop(_, _, _)
BlockScalarLoop(ls, currentLine, valueLines) ==
    IF currentLine >= Len(ls) THEN <<valueLines, currentLine>>
    ELSE LET line == Line(ls, currentLine)
         IN IF line = ""
            THEN LET rest == {j \in (currentLine + 1)..(Len(ls) - 1) : Line(ls, j) # ""}
                     nextNonEmpty == IF rest = {} THEN Len(ls)
                                     ELSE CHOOSE j \in rest : \A k \in rest : j <= k
                 IN IF nextNonEmpty < Len(ls) /\ ~Indented(Line(ls, nextNonEmpty))
                    THEN <<valueLines, currentLine>>
                    ELSE BlockScalarLoop(ls, currentLine + 1, Append(valueLines, line))
            ELSE IF Indented(line)
            THEN BlockScalarLoop(ls, currentLine + 1, Append(valueLines, line))
            ELSE <<valueLines, currentLine>>

\* the flow-collection loop of parseMultilineValue
RECURSIVE FlowLoop(_, _, _)
FlowLoop(ls, currentLine, valueLines) ==
    IF currentLine >= Len(ls) THEN <<valueLines, currentLine>>
    ELSE LET line    == Line(ls, currentLine)
             trimmed == TrimSpace(line)
         IN IF trimmed = "" THEN <<valueLines, currentLine>>
            ELSE IF Indented(line)
            THEN IF HasSuffix(trimmed, "]") \/ HasSuffix(trimmed, "}")
                 THEN <<Append(valueLines, line), currentLine + 1>>
                 ELSE FlowLoop(ls, currentLine + 1, Append(valueLines, line))
            ELSE <<valueLines, currentLine>>

\* BareLoop collecting the continuation lines without their indentation
RECURSIVE BareLoopTrimmed(_, _, _, _)
BareLoopTrimmed(ls, startLine, currentLine, valueLines) ==
    IF currentLine >= Len(ls) THEN <<valueLines, currentLine>>
    ELSE LET line    == Line(ls, currentLine)
             trimmed == TrimSpace(line)
         IN IF ~Indented(line) THEN <<valueLines, currentLine>>
            ELSE IF /\ Contains(trimmed, ":")
                    /\ ~HasPrefix(trimmed, "-")
                    /\ ~HasPrefix(trimmed, "\"")
                    /\ ~HasPrefix(trimmed, "'")
                    /\ ~isSignificantlyIndented(line, Line(ls, startLine))
            THEN <<valueLines, currentLine>>
            ELSE IF HasPrefix(trimmed, "#") /\ ~Contains(trimmed, ":") THEN <<valueLines, currentLine>>
            ELSE BareLoopTrimmed(ls, startLine, currentLine + 1, Append(valueLines, trimmed))

\* the bare-continuation loop of parseMultilineValue
RECURSIVE BareLoop(_, _, _, _)
BareLoop(ls, startLine, currentLine, valueLines) ==
    IF currentLine >= Len(ls) THEN <<valueLines, currentLine>>
    ELSE LET line    == Line(ls, currentLine)
             trimmed == TrimSpace(line)
         IN IF ~Indented(line) THEN <<valueLines, currentLine>>
            ELSE IF /\ Contains(trimmed, ":")
                    /\ ~HasPrefix(trimmed, "-")
                    /\ ~HasPrefix(trimmed, "\"")
                    /\ ~HasPrefix(trimmed, "'")
            THEN IF isSignificantlyIndented(line, Line(ls, startLine))
                 THEN BareLoop(ls, startLine, currentLine + 1, Append(valueLines, line))
                 ELSE <<valueLines, currentLine>>
            ELSE IF HasPrefix(trimmed, "#") THEN <<valueLines, currentLine>>
            ELSE BareLoop(ls, startLine, currentLine + 1, Append(valueLines, line))

BlockIndicators == {"", "|", ">", "|-", ">-"}

parseMultilineValue(ls, startLine, initialValue) ==
    LET trimmedInitial == TrimSpace(initialValue)
        first == <<initialValue>>
        r == IF trimmedInitial \in BlockIndicators
             THEN BlockScalarLoop(ls, startLine + 1, first)
             ELSE IF HasSuffix(trimmedInitial, "[") \/ HasSuffix(trimmedInitial, "{")
             THEN FlowLoop(ls, startLine + 1, first)
             ELSE BareLoop(ls, startLine, startLine + 1, first)
    IN [fullValue |-> Join(r[1], "\n"), valueLines |-> r[1], newLineNum |-> r[2]]

consumeMultilineValueOneLine(ls, ln, initialValue) == ln

consumeMultilineValue(ls, ln, initialValue) ==
    parseMultilineValue(ls, ln - 1, initialValue).newLineNum

-----------------------------------------------------------------------------
(* The state of one ParseFile call: the lines read by the first pass, the  *)
(* line cursor, the ParserState and the RoleInfo under construction.       *)

NewParserState ==
    [CurrentSection |-> "", CurrentSubsection |-> "", PendingComment |-> "",
     GlobalComment |-> "", InSubsection |-> FALSE]

NewRoleInfo ==
    [Sections |-> [n \in {} |-> 0], SectionOrder |-> <<>>, AllVariables |-> <<>>,
     HasInstances |-> FALSE, InstancesVar |-> "", HasDefaultVars |-> FALSE,
     SSOEnabled |-> FALSE, HasDNS |-> FALSE, HasTraefik |-> FALSE,
     HasDocker |-> FALSE, HasWeb |-> FALSE, HasThemePark |-> FALSE]

NewSection(name) ==
    [Name |-> name, Variables |-> <<>>, Subsections |-> [n \in {} |-> 0], SubsectionOrder |-> <<>>]

\* m[k] = v for a Go map m
MapSet(m, k, v) == [x \in DOMAIN m \cup {k} |-> IF x = k THEN v ELSE m[x]]

\* RegisterSection without the test for an existing section
RegisterSectionUnchecked(r, sectionName) ==
    [r EXCEPT !.Sections = MapSet(@, sectionName, NewSection(sectionName)),
              !.SectionOrder = Append(@, sectionName)]

\* the body of  if _, exists := role.Sections[sectionName]; !exists { ... }
RegisterSection(r, sectionName) ==
    IF sectionName \in DOMAIN r.Sections THEN r
    ELSE LET lower == ToLower(sectionName)
         IN [r EXCEPT !.Sections = MapSet(@, sectionName, NewSection(sectionName)),
                      !.SectionOrder = Append(@, sectionName),
                      !.HasDNS = @ \/ lower = "dns",
                      !.HasTraefik = @ \/ lower = "traefik",
                      !.HasDocker = @ \/ lower = "docker",
                      !.HasWeb = @ \/ lower = "web"]

\* EffectiveComment with the pending comment before the global one
EffectiveCommentPendingFirst(st) ==
    IF noGlobalPrefixRe(st.PendingComment) THEN StripTag(st.PendingComment, "[NOGLOBAL]")
    ELSE IF st.PendingComment # "" /\ st.GlobalComment # ""
    THEN st.PendingComment \o "\n" \o st.GlobalComment
    ELSE IF st.PendingComment # "" THEN st.PendingComment
    ELSE st.GlobalComment

\* the comment given to an emitted variable
EffectiveComment(st) ==
    IF noGlobalPrefixRe(st.PendingComment) THEN StripTag(st.PendingComment, "[NOGLOBAL]")
    ELSE IF st.PendingComment # "" /\ st.GlobalComment # ""
    THEN st.GlobalComment \o "\n" \o st.PendingComment
    ELSE IF st.PendingComment # "" THEN st.PendingComment
    ELSE IF st.GlobalComment # "" THEN st.GlobalComment
    ELSE ""

\* the Variable literal built by ParseFile; newLineNum is lineNum after the value
NewVariable(st, varName, pm) ==
    [Name |-> varName, RawValue |-> pm.fullValue, Type |-> "",
     Section |-> st.CurrentSection, Subsection |-> st.CurrentSubsection,
     Comment |-> EffectiveComment(st), IsMultiline |-> Len(pm.valueLines) > 1,
     ValueLines |-> pm.valueLines, LineNumber |-> pm.newLineNum - Len(pm.valueLines)]

\* AddToSection putting a subsection's variable in the top-level list as well
AddToSectionBoth(sections, st, variable) ==
    IF st.CurrentSection \notin DOMAIN sections THEN sections
    ELSE LET section == sections[st.CurrentSection]
             sub == st.CurrentSubsection
         IN IF st.InSubsection /\ sub # ""
            THEN [sections EXCEPT ![st.CurrentSection] =
                    [section EXCEPT
                       !.Variables = Append(@, variable),
                       !.SubsectionOrder = IF sub \in DOMAIN section.Subsections THEN @ ELSE Append(@, sub),
                       !.Subsections = MapSet(@, sub, IF sub \in DOMAIN @ THEN Append(@[sub], variable)
                                                      ELSE <<variable>>)]]
            ELSE [sections EXCEPT ![st.CurrentSection] = [section EXCEPT !.Variables = Append(@, variable)]]

\* "Add to appropriate section"
AddToSection(sections, st, variable) ==
    IF st.CurrentSection \notin DOMAIN sections THEN sections
    ELSE LET section == sections[st.CurrentSection]
             sub == st.CurrentSubsection
         IN IF st.InSubsection /\ sub # ""
            THEN [sections EXCEPT ![st.CurrentSection] =
                    [section EXCEPT
                       !.SubsectionOrder = IF sub \in DOMAIN section.Subsections THEN @ ELSE Append(@, sub),
                       !.Subsections = MapSet(@, sub, IF sub \in DOMAIN @ THEN Append(@[sub], variable)
                                                      ELSE <<variable>>)]]
            ELSE [sections EXCEPT ![st.CurrentSection] = [section EXCEPT !.Variables = Append(@, variable)]]

\* the feature flags set after a variable is added
UpdateFlagsAnyValue(r, varName, fullValue) ==
    [r EXCEPT !.HasInstances = @ \/ HasSuffix(varName, "_instances"),
              !.InstancesVar = IF HasSuffix(varName, "_instances") THEN varName ELSE @,
              !.HasDefaultVars = @ \/ HasSuffix(varName, "_default") \/ HasSuffix(varName, "_custom"),
              !.SSOEnabled = @ \/ HasSuffix(varName, "_traefik_sso_middleware"),
              !.HasThemePark = @ \/ Contains(varName, "_themepark_")]

UpdateFlags(r, varName, fullValue) ==
    [r EXCEPT !.HasInstances = @ \/ HasSuffix(varName, "_instances"),
              !.InstancesVar = IF HasSuffix(varName, "_instances") THEN varName ELSE @,
              !.HasDefaultVars = @ \/ HasSuffix(varName, "_default") \/ HasSuffix(varName, "_custom"),
              !.SSOEnabled = @ \/ (/\ HasSuffix(varName, "_traefik_sso_middleware")
                                   /\ Contains(fullValue, "traefik_default_sso_middleware")),
              !.HasThemePark = @ \/ Contains(varName, "_themepark_")]

\* a scanner before its first use: the cache is the nil map; <<>> is nil and
\* <<keys>> a map with the given keys
NewDockerVarScanner(resourcesPath) == [resourcesPath |-> resourcesPath, cache |-> <<>>]

Parsing == op = "ParseFile" /\ lineNum < Len(lines)

CurLine == Line(lines, lineNum)

\* the first rule of the main loop that applies to a line
LineKind(line) ==
    LET trimmed == TrimSpace(line)
    IN IF trimmed = "" THEN "blank"
       ELSE IF sectionHeaderRe(trimmed) THEN "header"
       ELSE IF subsectionStartRe(trimmed) # <<>> THEN "subsectionStart"
       ELSE IF subsectionEndRe(trimmed) # <<>> THEN "subsectionEnd"
       ELSE IF HasPrefix(trimmed, "#") /\ ~sectionHeaderRe(trimmed) THEN "comment"
       ELSE IF variableRe(line) # <<>> THEN "variable"
       ELSE "other"

CurTrimmed == TrimSpace(CurLine)

Unparsed == UNCHANGED <<lines, lookups, scanner, op, args, ret>>

\* "Skip empty lines (but don't clear pending comment)"
BlankLine ==
    /\ Parsing /\ LineKind(CurLine) = "blank"
    /\ lineNum' = lineNum + 1
    /\ UNCHANGED <<state, role>>
    /\ Unparsed

\* SectionHeader that skips the line after the section name without looking at it
SectionHeaderSkipsBlindly ==
    /\ Parsing /\ LineKind(CurLine) = "header"
    /\ LET ln == lineNum + 1
           m  == IF ln < Len(lines) THEN sectionNameRe(TrimSpace(Line(lines, ln))) ELSE <<>>
       IN IF m = <<>>
          THEN lineNum' = ln /\ UNCHANGED <<state, role>>
          ELSE /\ lineNum' = ln + 2
               /\ IF isMetaSection(m[1])
                  THEN UNCHANGED <<state, role>>
                  ELSE /\ state' = [state EXCEPT !.CurrentSection = m[1],
                                                 !.CurrentSubsection = "",
                                                 !.InSubsection = FALSE,
                                                 !.PendingComment = "",
                                                 !.GlobalComment = ""]
                       /\ role' = RegisterSection(role, m[1])
    /\ Unparsed

\* "Check for section header (line of #####)"
SectionHeader ==
    /\ Parsing /\ LineKind(CurLine) = "header"
    /\ LET ln == lineNum + 1
           m  == IF ln < Len(lines) THEN sectionNameRe(TrimSpace(Line(lines, ln))) ELSE <<>>
       IN IF m = <<>>
          THEN lineNum' = ln /\ UNCHANGED <<state, role>>
          ELSE /\ lineNum' = IF ln + 1 < Len(lines) /\ sectionHeaderRe(TrimSpace(Line(lines, ln + 1)))
                             THEN ln + 2 ELSE ln + 1
               /\ IF isMetaSection(m[1])
                  THEN UNCHANGED <<state, role>>
                  ELSE /\ state' = [state EXCEPT !.CurrentSection = m[1],
                                                 !.CurrentSubsection = "",
                                                 !.InSubsection = FALSE,
                                                 !.PendingComment = "",
                                                 !.GlobalComment = ""]
                       /\ role' = RegisterSection(role, m[1])
    /\ Unparsed

\* SubsectionStart clearing the global comment as SubsectionEnd does
SubsectionStartClearsGlobal ==
    /\ Parsing /\ LineKind(CurLine) = "subsectionStart"
    /\ lineNum' = lineNum + 1
    /\ state' = [state EXCEPT !.CurrentSubsection = subsectionStartRe(CurTrimmed)[1],
                              !.InSubsection = TRUE,
                              !.PendingComment = "",
                              !.GlobalComment = ""]
    /\ UNCHANGED role
    /\ Unparsed

SubsectionStart ==
    /\ Parsing /\ LineKind(CurLine) = "subsectionStart"
    /\ lineNum' = lineNum + 1
    /\ state' = [state EXCEPT !.CurrentSubsection = subsectionStartRe(CurTrimmed)[1],
                              !.InSubsection = TRUE,
                              !.PendingComment = ""]
    /\ UNCHANGED role
    /\ Unparsed

SubsectionEnd ==
    /\ Parsing /\ LineKind(CurLine) = "subsectionEnd"
    /\ lineNum' = lineNum + 1
    /\ state' = [state EXCEPT !.CurrentSubsection = "",
                              !.InSubsection = FALSE,
                              !.PendingComment = "",
                              !.GlobalComment = ""]
    /\ UNCHANGED role
    /\ Unparsed

\* "Check for comment lines"
CommentLine ==
    /\ Parsing /\ LineKind(CurLine) = "comment"
    /\ lineNum' = lineNum + 1
    /\ LET commentText == TrimSpace(TrimPrefix(CurTrimmed, "#"))
       IN IF globalPrefixRe(commentText)
          THEN LET globalText == StripTag(commentText, "[GLOBAL]")
               IN state' = [state EXCEPT !.GlobalComment =
                              IF @ # "" THEN @ \o "\n" \o globalText ELSE globalText]
          ELSE state' = [state EXCEPT !.PendingComment =
                              IF @ # "" THEN @ \o "\n" \o commentText ELSE commentText]
    /\ UNCHANGED role
    /\ Unparsed

\* a definition line excluded by shouldSkipVariable
SkipVariable ==
    /\ Parsing /\ LineKind(CurLine) = "variable"
    /\ LET m == variableRe(CurLine)
       IN /\ shouldSkipVariable(m[1], state.PendingComment)
          /\ state' = [state EXCEPT !.PendingComment = ""]
          /\ lineNum' = consumeMultilineValue(lines, lineNum + 1, m[2])
    /\ UNCHANGED role
    /\ Unparsed

\* a definition line that emits a Variable
EmitVariable ==
    /\ Parsing /\ LineKind(CurLine) = "variable"
    /\ LET m  == variableRe(CurLine)
           pm == parseMultilineValue(lines, lineNum, m[2])
           variable == NewVariable(state, m[1], pm)
       IN /\ ~shouldSkipVariable(m[1], state.PendingComment)
          /\ lineNum' = pm.newLineNum
          /\ role' = UpdateFlags([role EXCEPT !.AllVariables = Append(@, variable),
                                              !.Sections = AddToSection(@, state, variable)],
                                 m[1], pm.fullValue)
          /\ state' = [state EXCEPT !.PendingComment = ""]
    /\ Unparsed

\* a line matched by no rule: the loop moves on
OtherLine ==
    /\ Parsing /\ LineKind(CurLine) = "other"
    /\ lineNum' = lineNum + 1
    /\ UNCHANGED <<state, role>>
    /\ Unparsed

ParseStep ==
    \/ BlankLine
    \/ SectionHeader
    \/ SubsectionStart
    \/ SubsectionEnd
    \/ CommentLine
    \/ SkipVariable
    \/ EmitVariable
    \/ OtherLine

-----------------------------------------------------------------------------
(* internal/parser: the type inferrer.  internal/types names the types.    *)

Bool == "bool"

IntType == "int"

String == "string"

List == "list"

Dict == "dict"

StringNumber == "string (number)"

StringHTTPHTTPS == "string (http/https)"

\* ^(true|True|TRUE|yes|Yes|YES)$
boolTrueRe(s) == s \in {"true", "True", "TRUE", "yes", "Yes", "YES"}

\* ^(false|False|FALSE|no|No|NO)$
boolFalseRe(s) == s \in {"false", "False", "FALSE", "no", "No", "NO"}

\* \d+ on the whole of s
AllDigits(s) == Len(s) >= 1 /\ AllIn(s, Digits)

\* ^-?\d+$
intRe(s) == AllDigits(TrimPrefix(s, "-"))

\* ^-?\d+\.\d+$
floatRe(s) ==
    LET u == TrimPrefix(s, "-")
        n == LeadingRun(u, Digits)
    IN n >= 1 /\ n < Len(u) /\ Char(u, n + 1) = "." /\ AllDigits(From(u, n + 1))

\* ^\[.*\]$
listRe(s) == Len(s) >= 2 /\ HasPrefix(s, "[") /\ HasSuffix(s, "]") /\ ~Contains(s, "\n")

\* ^\{.*\}$
dictRe(s) == Len(s) >= 2 /\ HasPrefix(s, "{") /\ HasSuffix(s, "}") /\ ~Contains(s, "\n")

\* inferFromBlock looking at the trimmed value, which has no empty first line
inferFromBlockTrimmed(value) ==
    IF ~Contains(TrimSpace(value), "\n") THEN ""
    ELSE IF HasPrefix(TrimSpace(Split(TrimSpace(value), "\n")[1]), "-") THEN List
    ELSE ""

\* the multi-line part of inferFromValue: "" when it decides nothing
inferFromBlock(value) ==
    IF ~Contains(value, "\n") THEN ""
    ELSE LET ls == Split(value, "\n")
             firstLine == TrimSpace(ls[1])
             trimmedSecond == TrimSpace(ls[2])
         IN IF firstLine = "" /\ Len(ls) > 1 /\ HasPrefix(trimmedSecond, "-") THEN List
            ELSE IF /\ firstLine = "" /\ Len(ls) > 1
                    /\ Contains(trimmedSecond, ":") /\ ~HasPrefix(trimmedSecond, "#") THEN Dict
            ELSE IF HasPrefix(firstLine, "-") THEN List
            ELSE ""

inferFromValue(value) ==
    LET trimmedValue == TrimSpace(value)
    IN IF inferFromBlock(value) # "" THEN inferFromBlock(value)
       ELSE IF trimmedValue \in {"", "~", "null"} THEN "null"
       ELSE IF trimmedValue \in {"\"\"", "''"} THEN String
       ELSE IF boolTrueRe(trimmedValue) \/ boolFalseRe(trimmedValue) THEN Bool
       ELSE IF intRe(trimmedValue) THEN IntType
       ELSE IF floatRe(trimmedValue) THEN "float"
       ELSE IF listRe(trimmedValue) THEN List
       ELSE IF dictRe(trimmedValue) THEN Dict
       ELSE IF HasPrefix(trimmedValue, "-") \/ HasPrefix(trimmedValue, "  -") THEN List
       ELSE IF \/ HasPrefix(trimmedValue, "\"") \/ HasPrefix(trimmedValue, "'")
               \/ Contains(trimmedValue, "{{") THEN String
       ELSE String

EndsWithAny(s, suffixes) == \E x \in suffixes : HasSuffix(s, x)

inferFromNamePattern(name) ==
    LET lower == ToLower(name)
    IN IF EndsWithAny(lower, {"_enabled", "_proxy", "_insecure"}) THEN "bool (true/false)"
       ELSE IF EndsWithAny(lower, {"_domain", "_subdomain", "_url", "_path", "_location",
                                   "_folder", "_name", "_container", "_image", "_tag",
                                   "_repo", "_record", "_zone", "_token", "_theme"}) THEN String
       ELSE IF EndsWithAny(lower, {"_port", "_timeout"}) THEN StringNumber
       ELSE IF EndsWithAny(lower, {"_scheme"}) THEN StringHTTPHTTPS
       ELSE IF EndsWithAny(lower, {"_list", "_ports", "_volumes", "_networks", "_labels",
                                   "_devices", "_addons", "_instances"}) THEN List
       ELSE IF EndsWithAny(lower, {"_envs", "_dict", "_options", "_labels"}) THEN Dict
       ELSE String

\* a nil *TypeInferenceConfig
NilConfig == [IsNil |-> TRUE, Exact |-> [k \in {} |-> ""], Patterns |-> <<>>, Overrides |-> [k \in {} |-> ""]]

\* for suffix, typ := range m, in the iteration order `order` of the keys of m:
\* the type of the first key that ends name, <<>> when the loop ends without one
RangeSuffix(m, order, name) ==
    LET hits == {i \in 1..Len(order) : HasSuffix(name, order[i])}
    IN IF hits = {} THEN <<>>
       ELSE <<m[order[CHOOSE i \in hits : \A j \in hits : i <= j]]>>

\* for _, pattern := range cfg.Patterns
RangePatterns(patterns, name) ==
    LET hits == {i \in 1..Len(patterns) : Contains(name, patterns[i].SuffixContains)}
    IN IF hits = {} THEN <<>>
       ELSE <<patterns[CHOOSE i \in hits : \A j \in hits : i <= j].Type>>

\* InferType with the value consulted before the overrides table
InferTypeValueFirst(name, value, cfg, exactOrder, overridesOrder) ==
    LET exact     == IF cfg.IsNil THEN <<>> ELSE RangeSuffix(cfg.Exact, exactOrder, name)
        overrides == IF cfg.IsNil THEN <<>> ELSE RangeSuffix(cfg.Overrides, overridesOrder, name)
    IN IF exact # <<>> THEN exact[1]
       ELSE IF inferFromValue(value) # "" THEN inferFromValue(value)
       ELSE IF overrides # <<>> THEN overrides[1]
       ELSE inferFromNamePattern(name)

\* InferType; Go leaves the iteration order of a map open, so the orders in
\* which the two range loops visit the keys are parameters
InferType(name, value, cfg, exactOrder, overridesOrder) ==
    LET exact     == IF cfg.IsNil THEN <<>> ELSE RangeSuffix(cfg.Exact, exactOrder, name)
        overrides == IF cfg.IsNil THEN <<>> ELSE RangeSuffix(cfg.Overrides, overridesOrder, name)
        patterns  == IF cfg.IsNil THEN <<>> ELSE RangePatterns(cfg.Patterns, name)
    IN IF exact # <<>> THEN exact[1]
       ELSE IF overrides # <<>> THEN overrides[1]
       ELSE IF inferFromValue(value) # "" THEN inferFromValue(value)
       ELSE IF patterns # <<>> THEN patterns[1]
       ELSE inferFromNamePattern(name)

\* the orders in which a range loop can visit the keys of a map
KeyOrders(m) ==
    {o \in [1..Cardinality(DOMAIN m) -> DOMAIN m] : \A i, j \in DOMAIN o : i # j => o[i] # o[j]}

InferTypeCall ==
    /\ op = "InferType" /\ ret = <<>>
    /\ \E exactOrder \in KeyOrders(args.cfg.Exact), overridesOrder \in KeyOrders(args.cfg.Overrides) :
          ret' = <<InferType(args.name, args.value, args.cfg, exactOrder, overridesOrder)>>
    /\ UNCHANGED <<lines, lineNum, state, role, lookups, scanner, op, args>>

-----------------------------------------------------------------------------
(* internal/parser: the filtering and naming utilities.                    *)

\* the bases that one variable adds to hideBase
HideBases(name) ==
    (IF HasSuffix(name, "_default") THEN {TrimSuffix(name, "_default")} ELSE {})
        \cup (IF HasSuffix(name, "_custom") THEN {TrimSuffix(name, "_custom")} ELSE {})

\* BuildHideBaseSet keeping only the bases that have both variants
BuildHideBaseSetBoth(variables) ==
    {b \in UNION {HideBases(variables[i].Name) : i \in 1..Len(variables)} :
        /\ \E i \in 1..Len(variables) : variables[i].Name = b \o "_default"
        /\ \E i \in 1..Len(variables) : variables[i].Name = b \o "_custom"}

\* the set of the keys that BuildHideBaseSet maps to true
BuildHideBaseSet(variables) == UNION {HideBases(variables[i].Name) : i \in 1..Len(variables)}

\* the loop of FilterVariables over the rest of the variables
RECURSIVE FilterLoop(_, _)
FilterLoop(variables, hideBase) ==
    IF variables = <<>> THEN <<>>
    ELSE IF Head(variables).Name \in hideBase THEN FilterLoop(Tail(variables), hideBase)
    ELSE <<Head(variables)>> \o FilterLoop(Tail(variables), hideBase)

FilterVariables(variables) == FilterLoop(variables, BuildHideBaseSet(variables))

\* GenerateInstanceName without the exception for the instances variable
GenerateInstanceNameNoException(varName, roleName, instanceName) ==
    IF HasPrefix(varName, roleName \o "_role_")
    THEN instanceName \o "_" \o TrimPrefix(varName, roleName \o "_role_")
    ELSE IF HasPrefix(varName, roleName \o "_")
    THEN instanceName \o "_" \o TrimPrefix(varName, roleName \o "_")
    ELSE varName

GenerateInstanceName(varName, roleName, instanceName) ==
    LET rolePrefix == roleName \o "_role_"
        roleSimplePrefix == roleName \o "_"
    IN IF HasPrefix(varName, rolePrefix)
       THEN instanceName \o "_" \o TrimPrefix(varName, rolePrefix)
       ELSE IF HasPrefix(varName, roleSimplePrefix)
       THEN IF TrimPrefix(varName, roleSimplePrefix) = "instances" THEN varName
            ELSE instanceName \o "_" \o TrimPrefix(varName, roleSimplePrefix)
       ELSE varName

FilterVariablesCall ==
    /\ op = "FilterVariables" /\ ret = <<>>
    /\ ret' = <<BuildHideBaseSet(args.variables), FilterVariables(args.variables)>>
    /\ UNCHANGED <<lines, lineNum, state, role, lookups, scanner, op, args>>

GenerateInstanceNameCall ==
    /\ op = "GenerateInstanceName" /\ ret = <<>>
    /\ ret' = <<GenerateInstanceName(args.varName, args.roleName, args.instanceName)>>
    /\ UNCHANGED <<lines, lineNum, state, role, lookups, scanner, op, args>>

-----------------------------------------------------------------------------
(* Documents: every concatenation of at most MaxBlocks blocks of lines.    *)

MaxBlocks == 4

RECURSIVE Flatten(_)
Flatten(bs) == IF bs = <<>> THEN <<>> ELSE Head(bs) \o Flatten(Tail(bs))

Documents(blocks) == {Flatten(bs) : bs \in UNION {[1..n -> blocks] : n \in 0..MaxBlocks}}

InitParse(blocks) ==
    /\ lines \in Documents(blocks)
    /\ lineNum = 0
    /\ state = NewParserState
    /\ role = NewRoleInfo
    /\ scanner = NewDockerVarScanner("resources")
    /\ lookups = <<>>
    /\ op = "ParseFile"
    /\ args = <<>>
    /\ ret = <<>>

SectionBlocks ==
    { <<"##########", "# Docker", "##########">>,
      <<"##########", "# Web">>,
      <<"##########", "# Author: x">>,
      <<"##########">>,
      <<"# Ports - Sub-section Start">>,
      <<"# Ports - Sub-section End">>,
      <<"# Skip docs">>,
      <<"a: 1">>,
      <<"  - b">>,
      <<"">> }

Init == InitParse(SectionBlocks)

Next == ParseStep

Spec == Init /\ [][Next]_vars

ValueBlocks ==
    { <<"a: 1">>,
      <<"b:">>,
      <<"c :  [">>,
      <<"d_paths_folders_list: 2">>,
      <<"  - item1", "  - item2">>,
      <<"  key: v">>,
      <<"  x ]">>,
      <<"">>,
      <<"##########", "# Docker", "# Ports - Sub-section Start", "# note", "# Ports - Sub-section End">> }

InitValues == InitParse(ValueBlocks)

SpecValues == InitValues /\ [][Next]_vars

CommentBlocks ==
    { <<"# [GLOBAL] Applies to all instances">>,
      <<"# [GLOBAL] G2">>,
      <<"# Specific note">>,
      <<"# [NOGLOBAL] Only this">>,
      <<"# Skip docs">>,
      <<"foo: 1">>,
      <<"">>,
      <<"  - b">>,
      <<"##########", "# Docker", "# Ports - Sub-section Start">>,
      <<"# Ports - Sub-section End">> }

InitComments == InitParse(CommentBlocks)

SpecComments == InitComments /\ [][Next]_vars

-----------------------------------------------------------------------------
(* The pure functions, each applied once to arguments drawn from a pool.   *)

InitCall(name, argSet) ==
    /\ op = name
    /\ args \in argSet
    /\ ret = <<>>
    /\ lines = <<>>
    /\ lineNum = 0
    /\ state = NewParserState
    /\ role = NewRoleInfo
    /\ scanner = NewDockerVarScanner("resources")
    /\ lookups = <<>>

InferNames ==
    {"plex_enabled", "plex_web_port", "plex_docker_envs", "plex_role_paths_location", "plex"}

InferValues ==
    {"true", "42", "\"{{ some_expr }}\"", "bare", "/opt/plex", "[\"a\", \"b\"]",
     "\n  - item1\n  - item2", "\n  PLEX_UID: \"{{ uid }}\""}

\* a Go map with the given keys
MapOf(keys, m) == [k \in keys |-> m[k]]

ExactTables ==
    LET m == [k \in {"_port", "web_port", "_enabled"} |->
                IF k = "_port" THEN "exact-port" ELSE IF k = "web_port" THEN "exact-web" ELSE "exact-enabled"]
    IN {MapOf({}, m), MapOf({"_port", "web_port"}, m), MapOf({"_enabled"}, m)}

OverridesTables ==
    LET m == [k \in {"_port", "_envs", "_enabled"} |->
                IF k = "_port" THEN "over-port" ELSE IF k = "_envs" THEN "over-envs" ELSE "over-enabled"]
    IN {MapOf({}, m), MapOf({"_port", "_envs"}, m), MapOf({"_enabled", "_envs"}, m)}

PatternLists ==
    { <<>>,
      <<[SuffixContains |-> "_paths_", Type |-> "pattern-paths"],
        [SuffixContains |-> "_location", Type |-> "pattern-location"]>>,
      <<[SuffixContains |-> "plex", Type |-> "pattern-plex"],
        [SuffixContains |-> "_enabled", Type |-> "pattern-enabled"]>> }

InferConfigs ==
    {NilConfig} \cup
    {[IsNil |-> FALSE, Exact |-> e, Patterns |-> p, Overrides |-> o] :
        e \in ExactTables, p \in PatternLists, o \in OverridesTables}

InitInfer == InitCall("InferType", [name : InferNames, value : InferValues, cfg : InferConfigs])

SpecInfer == InitInfer /\ [][InferTypeCall]_vars

MaxVars == 4

FilterNames ==
    {"role_docker_envs_default", "role_docker_envs_custom", "role_docker_envs",
     "role_other_var", "role_other_var_default", "_custom", "role_other_var_default_custom"}

VariableLists == UNION {[1..n -> {[Name |-> x] : x \in FilterNames}] : n \in 0..MaxVars}

InitFilter == InitCall("FilterVariables", [variables : VariableLists])

SpecFilter == InitFilter /\ [][FilterVariablesCall]_vars

InstanceVarNames ==
    {"plex_role_web_subdomain", "plex_role_docker_envs", "plex_instances", "plex_name",
     "plex_role_instances", "plex_role_", "plex_", "plex", "sonarr_role_name", "plexinstances",
     "plex_instances_list", "_role_instances", "_instances"}

InstanceRoleNames == {"plex", "plex_role", "sonarr", ""}

InstanceNames == {"plex2", "plex", ""}

InitInstance ==
    InitCall("GenerateInstanceName",
             [varName : InstanceVarNames, roleName : InstanceRoleNames, instanceName : InstanceNames])

SpecInstance == InitInstance /\ [][GenerateInstanceNameCall]_vars

-----------------------------------------------------------------------------
(* Properties of ParseFile.                                                *)

Range(seq) == {seq[i] : i \in 1..Len(seq)}

NoDuplicates(seq) == \A i, j \in 1..Len(seq) : i # j => seq[i] # seq[j]

AllVars == role.AllVariables

\* a section header (a line of #) at line k that opens or re-enters section n
HeaderOf(k, n) ==
    /\ k + 1 < Len(lines)
    /\ LineKind(Line(lines, k)) = "header"
    /\ sectionNameRe(TrimSpace(Line(lines, k + 1))) = <<n>>

\* the variables of AllVariables that were defined at the top level of section n
TopLevelOf(n) ==
    LET InSection(v) == v.Section = n /\ v.Subsection = "" IN SelectSeq(AllVars, InSection)

\* C1: after every processed line sectionOrder has no duplicate name and
\* lists exactly the keys of sections; a header that names an existing
\* section re-enters it, so each section holds, in source order, every
\* variable defined under any of its headers.
C1_SectionCreatedOnce ==
    /\ NoDuplicates(role.SectionOrder)
    /\ Range(role.SectionOrder) = DOMAIN role.Sections
    /\ \A n \in DOMAIN role.Sections :
          /\ role.Sections[n].Name = n
          /\ role.Sections[n].Variables = TopLevelOf(n)

\* a section that was entered by two headers and received a variable under each
C1_Witness ==
    \E n \in DOMAIN role.Sections :
       LET vs == role.Sections[n].Variables
       IN /\ Len(vs) = 2
          /\ role.SectionOrder = <<n>>
          /\ \E k \in 0..vs[1].LineNumber : HeaderOf(k, n)
          /\ \E k \in vs[1].LineNumber..vs[2].LineNumber : HeaderOf(k, n)

\* the document consists of unindented definition lines only
OnlyDefinitions == \A i \in 1..Len(lines) : variableRe(lines[i]) # <<>>

\* the i-th line defines the i-th variable, on one line, outside any section
OnePerLine(i) ==
    LET v == AllVars[i]
        m == variableRe(lines[i])
    IN /\ v.Name = m[1]
       /\ v.LineNumber = i - 1
       /\ HasPrefix(lines[i], v.Name)
       /\ v.ValueLines = <<m[2]>>
       /\ HasSuffix(lines[i], v.ValueLines[1])
       /\ v.IsMultiline = FALSE
       /\ v.Section = ""

\* C2 as stated: every document made of definition lines only yields one
\* single-line variable per line, in line order, in the empty-string section.
C2_AsStated ==
    OnlyDefinitions =>
        /\ Len(AllVars) = lineNum
        /\ \A i \in 1..Len(AllVars) : OnePerLine(i)

NoExcludedName == \A i \in 1..Len(lines) : ~Contains(lines[i], "_paths_folders_list")

\* C2 (amended): every document made of definition lines only, none of whose
\* names contains _paths_folders_list, yields one single-line variable per
\* line, in line order, in the empty-string section.
C2_OneVariablePerLine ==
    (OnlyDefinitions /\ NoExcludedName) =>
        /\ Len(AllVars) = lineNum
        /\ \A i \in 1..Len(AllVars) : OnePerLine(i)

\* a finished parse of three definition lines with an empty, a plain and a
\* flow-opening value
C2_Witness ==
    /\ OnlyDefinitions /\ NoExcludedName
    /\ lineNum = Len(lines) /\ Len(AllVars) = 3
    /\ {AllVars[i].ValueLines[1] : i \in 1..3} = {"", "1", "["}

\* the defining line is the name, a colon between optional white space, and
\* the first value line, which does not begin with white space
DefiningLine(v) ==
    LET line == Line(lines, v.LineNumber)
        first == v.ValueLines[1]
        pre == SubSeq(line, 1, Len(line) - Len(first))
    IN /\ HasSuffix(line, first)
       /\ HasPrefix(pre, v.Name)
       /\ TrimSpace(From(pre, Len(v.Name))) = ":"
       /\ (first = "" \/ Char(first, 1) \notin SpaceChars)

Dedent(i) == i >= Len(lines) \/ (Line(lines, i) # "" /\ ~Indented(Line(lines, i)))

\* the variable was defined with an empty value on the line before `first`
EmptyThen(v, first) ==
    /\ v.LineNumber + 1 < Len(lines)
    /\ HasSuffix(TrimSpace(Line(lines, v.LineNumber)), ":")
    /\ v.ValueLines[1] = ""
    /\ Line(lines, v.LineNumber + 1) = first

TypeOf(v) == InferType(v.Name, v.RawValue, NilConfig, <<>>, <<>>)

\* C7: a definition with an empty value followed by `  - item1`, `  - item2`
\* and then a dedented line or the end of the input is one multi-line
\* variable with the valueLines "", "  - item1", "  - item2" whose rawValue
\* infers list; when the line after the definition is the indented pair
\* `  key: v` the rawValue infers dict.
C7_BlockListAndDict ==
    \A i \in 1..Len(AllVars) :
       LET v == AllVars[i]
       IN /\ ( /\ EmptyThen(v, "  - item1")
               /\ v.LineNumber + 2 < Len(lines)
               /\ Line(lines, v.LineNumber + 2) = "  - item2"
               /\ Dedent(v.LineNumber + 3) )
             => /\ v.ValueLines = <<"", "  - item1", "  - item2">>
                /\ v.RawValue = "\n  - item1\n  - item2"
                /\ v.IsMultiline
                /\ TypeOf(v) = "list"
          /\ EmptyThen(v, "  key: v")
             => /\ v.IsMultiline
                /\ v.ValueLines[2] = "  key: v"
                /\ TypeOf(v) = "dict"

\* both blocks were parsed: the list ended by a definition, the dict by the
\* end of the input
C7_Witness ==
    /\ lineNum = Len(lines)
    /\ \E i, j \in 1..Len(AllVars) :
          /\ EmptyThen(AllVars[i], "  - item1")
          /\ AllVars[i].LineNumber + 3 < Len(lines)
          /\ Dedent(AllVars[i].LineNumber + 3)
          /\ TypeOf(AllVars[i]) = "list"
          /\ EmptyThen(AllVars[j], "  key: v")
          /\ AllVars[j].LineNumber + 2 = Len(lines)
          /\ TypeOf(AllVars[j]) = "dict"

\* this step emits a variable
Emits == Len(role'.AllVariables) = Len(role.AllVariables) + 1

Emitted == role'.AllVariables[Len(role'.AllVariables)]

\* the comment the claim gives a variable emitted with global comment g and
\* pending comment p
ClaimedComment(g, p) ==
    IF g # "" /\ p # "" THEN g \o "\n" \o p
    ELSE IF p # "" THEN p
    ELSE IF g # "" THEN g
    ELSE ""

\* the comment lines directly above line i, [GLOBAL] ones or ordinary ones
RECURSIVE CommentsAbove(_, _)
CommentsAbove(i, global) ==
    IF i < 1 \/ LineKind(Line(lines, i - 1)) # "comment" THEN <<>>
    ELSE LET text == TrimSpace(TrimPrefix(TrimSpace(Line(lines, i - 1)), "#"))
         IN CommentsAbove(i - 1, global) \o
              (IF HasPrefix(text, "[GLOBAL]") = global
               THEN <<IF global THEN TrimLeft(From(text, Len("[GLOBAL]")), SpaceChars) ELSE text>>
               ELSE <<>>)

\* the comment block directly above line i starts the document
BlockStartsDocument(i) == \A k \in 0..(i - 1) : LineKind(Line(lines, k)) = "comment"

\* C8: a variable emitted while the pending comment has no [NOGLOBAL] tag
\* gets the global text, a newline and the pending text when both are
\* non-empty, the non-empty one when only one is, and the empty comment
\* otherwise; the global text is the text of the [GLOBAL] lines without the
\* tag, so the block of comment lines at the head of a document gives the
\* first variable its de-tagged [GLOBAL] lines followed by its other lines.
C8_GlobalThenPending ==
    /\ [][(Emits /\ ~Contains(state.PendingComment, "[NOGLOBAL]"))
            => Emitted.Comment = ClaimedComment(state.GlobalComment, state.PendingComment)]_vars
    /\ [](\A i \in 1..Len(AllVars) :
            LET v == AllVars[i]
                g == CommentsAbove(v.LineNumber, TRUE)
                p == CommentsAbove(v.LineNumber, FALSE)
            IN (BlockStartsDocument(v.LineNumber) /\ ~Contains(Join(p, "\n"), "[NOGLOBAL]"))
                  => v.Comment = ClaimedComment(Join(g, "\n"), Join(p, "\n")))

\* the example of the specification, and a variable with the global comment only
C8_Witness ==
    /\ Len(AllVars) = 2
    /\ Len(lines) >= 3
    /\ SubSeq(lines, 1, 3) = <<"# [GLOBAL] Applies to all instances", "# Specific note", "foo: 1">>
    /\ AllVars[1].Comment = "Applies to all instances\nSpecific note"
    /\ AllVars[2].Comment = "Applies to all instances"

-----------------------------------------------------------------------------
(* Properties of the type inferrer.                                        *)

Returned(name) == op = name /\ ret # <<>>

NoTables(cfg) == cfg.IsNil \/ (DOMAIN cfg.Exact = {} /\ DOMAIN cfg.Overrides = {} /\ cfg.Patterns = <<>>)

\* the keys of a table that end the name
SuffixKeys(m, name) == {k \in DOMAIN m : HasSuffix(name, k)}

\* C4 as stated: without configuration tables a name ending in _enabled with
\* the quoted templating expression "{{ some_expr }}" as value is classified
\* as boolean by the name-suffix fallback.
C4_AsStated ==
    ( /\ Returned("InferType")
      /\ NoTables(args.cfg)
      /\ HasSuffix(args.name, "_enabled")
      /\ args.value = "\"{{ some_expr }}\"" )
    => ret[1] \in {"bool", "bool (true/false)"}

\* C5: when the name ends with a key of the exact table the result is the
\* type configured for such a key, whatever the value, the overrides and the
\* patterns are; when it ends with no exact key but with a key of the
\* overrides table the result is the type configured for such an override,
\* also for a value with a literal shape.
C5_ConfiguredSuffixWins ==
    (Returned("InferType") /\ ~args.cfg.IsNil) =>
        LET e == SuffixKeys(args.cfg.Exact, args.name)
            o == SuffixKeys(args.cfg.Overrides, args.name)
        IN /\ e # {} => ret[1] \in {args.cfg.Exact[k] : k \in e}
           /\ (e = {} /\ o # {}) => ret[1] \in {args.cfg.Overrides[k] : k \in o}

\* an override decided although the value is the literal true and a pattern
\* matches the name
C5_Witness ==
    /\ Returned("InferType")
    /\ args.name = "plex_enabled" /\ args.value = "true"
    /\ ~args.cfg.IsNil
    /\ SuffixKeys(args.cfg.Exact, args.name) = {} /\ DOMAIN args.cfg.Exact # {}
    /\ RangePatterns(args.cfg.Patterns, args.name) # <<>>
    /\ ret = <<"over-enabled">>

\* C6 as stated: with no exact or overrides suffix matching and a value
\* without literal shape (a bare word, a file path) the result is the type of
\* the first entry of patterns whose substring occurs in the name, and the
\* built-in name-suffix table decides only when no entry matches.
C6_AsStated ==
    ( /\ Returned("InferType")
      /\ ~args.cfg.IsNil
      /\ SuffixKeys(args.cfg.Exact, args.name) = {}
      /\ SuffixKeys(args.cfg.Overrides, args.name) = {}
      /\ args.value \in {"bare", "/opt/plex"} )
    => LET hits == {i \in 1..Len(args.cfg.Patterns) :
                      Contains(args.name, args.cfg.Patterns[i].SuffixContains)}
       IN IF hits # {}
          THEN \E i \in hits : /\ \A j \in hits : i <= j
                               /\ ret[1] = args.cfg.Patterns[i].Type
          ELSE ret[1] = inferFromNamePattern(args.name)

-----------------------------------------------------------------------------
(* Properties of the filtering and naming utilities.                       *)

\* the candidates for a base name: the prefixes of the names in use
BaseCandidates == {SubSeq(x, 1, k) : <<x, k>> \in {<<y, j>> \in FilterNames \X (0..40) : j <= Len(y)}}

HasSibling(b, variables) ==
    \E i \in 1..Len(variables) : variables[i].Name \in {b \o "_default", b \o "_custom"}

SplitsAs(s, prefix, rest) == HasPrefix(s, prefix) /\ HasSuffix(s, rest) /\ Len(s) = Len(prefix) + Len(rest)

Suffixes(s) == {From(s, k) : k \in 0..Len(s)}

\* C10: a name role_role_rest gives instance_rest; otherwise a name role_rest
\* gives instance_rest unless rest is exactly "instances", when the name is
\* returned unchanged; any other name is returned unchanged.
C10_InstanceName ==
    Returned("GenerateInstanceName") =>
        LET v == args.varName
            r == args.roleName
            inst == args.instanceName
        IN /\ \A rest \in Suffixes(v) :
                /\ SplitsAs(v, r \o "_role_", rest) => ret[1] = inst \o "_" \o rest
                /\ (SplitsAs(v, r \o "_", rest) /\ ~HasPrefix(v, r \o "_role_"))
                      => ret[1] = IF rest = "instances" THEN v ELSE inst \o "_" \o rest
           /\ (~HasPrefix(v, r \o "_role_") /\ ~HasPrefix(v, r \o "_")) => ret[1] = v
           /\ (r = "plex" /\ inst = "plex2") =>
                /\ v = "plex_role_web_subdomain" => ret[1] = "plex2_web_subdomain"
                /\ v = "plex_name" => ret[1] = "plex2_name"
                /\ v = "plex_instances" => ret[1] = "plex_instances"

\* the instances variable of the role is returned unchanged
C10_Witness ==
    /\ Returned("GenerateInstanceName")
    /\ args = [varName |-> "plex_instances", roleName |-> "plex", instanceName |-> "plex2"]
    /\ ret = <<"plex_instances">>

-----------------------------------------------------------------------------
(* AdjustMultilineIndent (internal/parser/utils.go).                       *)

\* strings.Index(s, sub): the 0-based index of the first occurrence, or -1
Index(s, sub) ==
    LET at == {i \in 0..(Len(s) - Len(sub)) : SubSeq(s, i + 1, i + Len(sub)) = sub}
    IN IF at = {} THEN -1 ELSE CHOOSE i \in at : \A j \in at : i <= j

\* strings.Replace(s, old, new, 1)
ReplaceFirst(s, old, new) ==
    LET i == Index(s, old)
    IN IF i < 0 THEN s ELSE SubSeq(s, 1, i) \o new \o From(s, i + Len(old))

\* strings.Repeat(" ", n)
RECURSIVE Spaces(_)
Spaces(n) == IF n <= 0 THEN "" ELSE " " \o Spaces(n - 1)

AdjustMultilineIndentNoFloor(ls, originalName, newName) ==
    IF Len(ls) <= 1 THEN ls
    ELSE LET diff == Len(newName) - Len(originalName)
             Adjust(line) ==
                 LET trimmed == TrimLeft(line, IndentChars)
                     currentIndent == Len(line) - Len(trimmed)
                     newIndent == IF currentIndent + diff < 0 THEN currentIndent
                                  ELSE currentIndent + diff
                 IN IF diff = 0 \/ trimmed = "" THEN line
                    ELSE Spaces(newIndent) \o trimmed
         IN [i \in 1..Len(ls) |->
                IF i = 1 THEN ReplaceFirst(ls[1], originalName, newName) ELSE Adjust(ls[i])]

AdjustMultilineIndent(ls, originalName, newName) ==
    IF Len(ls) <= 1 THEN ls
    ELSE LET diff == Len(newName) - Len(originalName)
             Adjust(line) ==
                 LET trimmed == TrimLeft(line, IndentChars)
                     currentIndent == Len(line) - Len(trimmed)
                     newIndent == IF currentIndent + diff < 0 THEN 0
                                  ELSE currentIndent + diff
                 IN IF diff = 0 \/ trimmed = "" THEN line
                    ELSE Spaces(newIndent) \o trimmed
         IN [i \in 1..Len(ls) |->
                IF i = 1 THEN ReplaceFirst(ls[1], originalName, newName) ELSE Adjust(ls[i])]

AdjustMultilineIndentCall ==
    /\ op = "AdjustMultilineIndent" /\ ret = <<>>
    /\ ret' = <<AdjustMultilineIndent(args.lines, args.originalName, args.newName)>>
    /\ UNCHANGED <<lines, lineNum, state, role, lookups, scanner, op, args>>

\* the most continuation lines of an adjusted value
MaxCont == 2

RenamePairs ==
    { <<"plex_role_docker_envs", "plex2_docker_envs">>,
      <<"plex_role_docker_envs", "plex_two_role_docker_envs">>,
      <<"plex_name", "plex2name">> }

FirstLines ==
    { "plex_role_docker_envs: \"{{ lookup('role_var', '_docker_envs_default', role='plex')",
      "plex_name: plex_name",
      "other:" }

ContinuationLines ==
    { "                           | combine(lookup('role_var', '_docker_envs_custom', role='plex')) }}\"",
      "  - item",
      "\t\tkey: v",
      "end",
      "",
      " \t " }

RECURSIVE SeqsUpTo(_, _)
SeqsUpTo(set, n) ==
    IF n = 0 THEN {<<>>}
    ELSE LET shorter == SeqsUpTo(set, n - 1)
         IN shorter \cup {Append(s, x) : s \in shorter, x \in set}

InitIndent ==
    InitCall("AdjustMultilineIndent",
             { [lines |-> <<f>> \o rest, originalName |-> p[1], newName |-> p[2]] :
                   f \in FirstLines, rest \in SeqsUpTo(ContinuationLines, MaxCont),
                   p \in RenamePairs })

SpecIndent == InitIndent /\ [][AdjustMultilineIndentCall]_vars

\* r is s with its first occurrence of old replaced by new, or s when old
\* does not occur in it
FirstOccurrenceReplaced(s, old, new, r) ==
    IF ~Contains(s, old) THEN r = s
    ELSE \E k \in 0..(Len(s) - Len(old)) :
            /\ SubSeq(s, k + 1, k + Len(old)) = old
            /\ \A j \in 0..(k - 1) : SubSeq(s, j + 1, j + Len(old)) # old
            /\ r = SubSeq(s, 1, k) \o new \o SubSeq(s, k + Len(old) + 1, Len(s))

\* C11: on a sequence of two or more lines the result has as many lines;
\* line 0 is the input's with the first oldName replaced by newName; every
\* later line that is not blank keeps its text after the leading blanks and
\* tabs and has leading white space of width
\* max(old width + len(newName) - len(oldName), 0); blank lines are
\* unchanged.  The test's rename shortens the indent of line 1 by 4.
C11_IndentShift ==
    (Returned("AdjustMultilineIndent") /\ Len(args.lines) > 1) =>
        LET ls == args.lines
            r == ret[1]
            diff == Len(args.newName) - Len(args.originalName)
        IN /\ Len(r) = Len(ls)
           /\ FirstOccurrenceReplaced(ls[1], args.originalName, args.newName, r[1])
           /\ \A i \in 2..Len(ls) :
                IF AllIn(ls[i], IndentChars) THEN r[i] = ls[i]
                ELSE /\ LeadingRun(r[i], IndentChars)
                          = Max(LeadingRun(ls[i], IndentChars) + diff, 0)
                     /\ TrimLeft(r[i], IndentChars) = TrimLeft(ls[i], IndentChars)
           /\ (args.originalName = "plex_role_docker_envs" /\ args.newName = "plex2_docker_envs")
                 => \A i \in 2..Len(ls) :
                       LeadingRun(ls[i], IndentChars) = 27
                           => /\ LeadingRun(r[i], IndentChars) = 23
                              /\ Len(r[i]) = Len(ls[i]) - 4

\* the test's two lines, and a line indented by less than the name shrinks
C11_Witness ==
    /\ Returned("AdjustMultilineIndent")
    /\ args.originalName = "plex_role_docker_envs" /\ args.newName = "plex2_docker_envs"
    /\ Len(args.lines) = 3
    /\ LeadingRun(args.lines[2], IndentChars) = 27
    /\ args.lines[3] = "  - item"
    /\ ret[1][1] = "plex2_docker_envs: \"{{ lookup('role_var', '_docker_envs_default', role='plex')"
    /\ ret[1][3] = "- item"

-----------------------------------------------------------------------------
(* The role_var lookups: roleVarLookupRe, InferRoleVarType and             *)
(* ScanInventoryForRoleVarLookups (internal/parser/inferrer.go).           *)

DictOmit == "dict/omit"

StringTrueFalse == "string (true/false)"

Quotes == {"'", "\""}

\* the i-th character of s, "" beyond its end
At(s, i) == IF i >= 1 /\ i <= Len(s) THEN Char(s, i) ELSE ""

\* w is in s at the 0-based offset i
HasAt(s, i, w) == i + Len(w) <= Len(s) /\ SubSeq(s, i + 1, i + Len(w)) = w

\* number of characters of s, from the i-th one on, that are not in set
RECURSIVE RunUntil(_, _, _)
RunUntil(s, i, set) ==
    IF i > Len(s) \/ Char(s, i) \in set THEN 0 ELSE 1 + RunUntil(s, i + 1, set)

\* lookup\s*\(\s*['"]role_var['"]\s*,\s*['"]([^'"]+)['"] matched at the
\* 0-based offset i of s: <<>> for no match, <<group 1, end offset>> for a
\* match
roleVarLookupAt(s, i) ==
    IF ~HasAt(s, i, "lookup") THEN <<>>
    ELSE LET p1 == i + 6 + RunFrom(s, i + 7, SpaceChars)
         IN IF At(s, p1 + 1) # "(" THEN <<>>
            ELSE LET p2 == p1 + 1 + RunFrom(s, p1 + 2, SpaceChars)
                 IN IF At(s, p2 + 1) \notin Quotes \/ ~HasAt(s, p2 + 1, "role_var")
                       \/ At(s, p2 + 10) \notin Quotes
                    THEN <<>>
                    ELSE LET p3 == p2 + 10 + RunFrom(s, p2 + 11, SpaceChars)
                         IN IF At(s, p3 + 1) # "," THEN <<>>
                            ELSE LET p4 == p3 + 1 + RunFrom(s, p3 + 2, SpaceChars)
                                     n == RunUntil(s, p4 + 2, Quotes)
                                 IN IF At(s, p4 + 1) \notin Quotes \/ n < 1
                                       \/ At(s, p4 + 2 + n) \notin Quotes
                                    THEN <<>>
                                    ELSE <<SubSeq(s, p4 + 2, p4 + 1 + n), p4 + 2 + n>>

\* roleVarLookupRe.FindAllStringSubmatch(s[i:], -1): group 1 of the leftmost
\* non-overlapping matches, in order
RECURSIVE FindAllLookups(_, _)
FindAllLookups(s, i) ==
    LET k == i + RunUntil(s, i + 1, {"l"})
    IN IF k >= Len(s) THEN <<>>
       ELSE LET m == roleVarLookupAt(s, k)
            IN IF m = <<>> THEN FindAllLookups(s, k + 1)
               ELSE <<m[1]>> \o FindAllLookups(s, m[2])

\* default=['"]
defaultQuotedRe(s) == Contains(s, "default='") \/ Contains(s, "default=\"")

\* (?i)default=(false|true)\b
defaultBoolRe(s) ==
    \E l \in {ToLower(s)}, w \in {"default=false", "default=true"} :
        \E i \in 0..(Len(l) - Len(w)) :
            /\ HasAt(l, i, w)
            /\ At(l, i + Len(w) + 1) \notin IdentChars

\* default=(\{\}|omit)
defaultDictOmitRe(s) == Contains(s, "default={}") \/ Contains(s, "default=omit")

\* default=\[\]
defaultListRe(s) == Contains(s, "default=[]")

\* InferRoleVarType with the line inspected before the suffix patterns
InferRoleVarTypeLineFirst(suffix, line) ==
    IF suffix = "_depends_on_healthchecks" THEN StringTrueFalse
    ELSE IF suffix = "_depends_on_delay" THEN StringNumber
    ELSE IF suffix = "_depends_on" THEN String
    ELSE IF Contains(line, "| bool") THEN Bool
    ELSE IF defaultQuotedRe(line) THEN String
    ELSE IF defaultBoolRe(line) THEN Bool
    ELSE IF defaultDictOmitRe(line) THEN DictOmit
    ELSE IF defaultListRe(line) THEN List
    ELSE IF Contains(suffix, "_scheme") THEN StringHTTPHTTPS
    ELSE IF Contains(suffix, "_enabled") \/ Contains(suffix, "_proxy") THEN Bool
    ELSE IF Contains(suffix, "_domain") \/ Contains(suffix, "_subdomain")
            \/ Contains(suffix, "_url") THEN String
    ELSE IF Contains(suffix, "_port") \/ Contains(suffix, "_timeout") THEN StringNumber
    ELSE String

InferRoleVarType(suffix, line) ==
    IF suffix = "_depends_on_healthchecks" THEN StringTrueFalse
    ELSE IF suffix = "_depends_on_delay" THEN StringNumber
    ELSE IF suffix = "_depends_on" THEN String
    ELSE IF Contains(suffix, "_scheme") THEN StringHTTPHTTPS
    ELSE IF Contains(suffix, "_enabled") \/ Contains(suffix, "_proxy") THEN Bool
    ELSE IF Contains(suffix, "_domain") \/ Contains(suffix, "_subdomain")
            \/ Contains(suffix, "_url") THEN String
    ELSE IF Contains(suffix, "_port") \/ Contains(suffix, "_timeout") THEN StringNumber
    ELSE IF Contains(line, "| bool") THEN Bool
    ELSE IF defaultQuotedRe(line) THEN String
    ELSE IF defaultBoolRe(line) THEN Bool
    ELSE IF defaultDictOmitRe(line) THEN DictOmit
    ELSE IF defaultListRe(line) THEN List
    ELSE String

RecordLookupLastWins(found, suffix, inferredType) == MapSet(found, suffix, inferredType)

\* "Store or update (keep more specific type if already exists)"
RecordLookup(found, suffix, inferredType) ==
    IF suffix \notin DOMAIN found \/ found[suffix] = "string"
    THEN MapSet(found, suffix, inferredType)
    ELSE found

RECURSIVE ScanMatchesNoIgnore(_, _, _, _)
ScanMatchesNoIgnore(found, matches, line, ignoreSet) ==
    IF matches = <<>> THEN found
    ELSE LET suffix == Head(matches)
         IN ScanMatchesNoIgnore(RecordLookup(found, suffix, InferRoleVarType(suffix, line)),
                                Tail(matches), line, ignoreSet)

\* the loop over the matches of one line
RECURSIVE ScanMatches(_, _, _, _)
ScanMatches(found, matches, line, ignoreSet) ==
    IF matches = <<>> THEN found
    ELSE LET suffix == Head(matches)
         IN IF suffix \in ignoreSet
            THEN ScanMatches(found, Tail(matches), line, ignoreSet)
            ELSE ScanMatches(RecordLookup(found, suffix, InferRoleVarType(suffix, line)),
                             Tail(matches), line, ignoreSet)

Scanning == op = "ScanInventoryForRoleVarLookups" /\ ret = <<>>

Unscanned == UNCHANGED <<lines, state, role, scanner, op, args>>

\* os.Open fails with a not-exist error: the empty map and no error
ScanMissingFile ==
    /\ Scanning /\ args.open = "notexist"
    /\ ret' = <<lookups, "nil">>
    /\ UNCHANGED <<lineNum, lookups>>
    /\ Unscanned

\* os.Open fails with another error: no map and the error
ScanOpenError ==
    /\ Scanning /\ args.open = "error"
    /\ ret' = <<"nil", "error">>
    /\ UNCHANGED <<lineNum, lookups>>
    /\ Unscanned

\* one iteration of the scanner.Scan() loop
ScanLine ==
    /\ Scanning /\ args.open = "ok" /\ lineNum < Len(lines)
    /\ LET line == Line(lines, lineNum)
       IN lookups' = ScanMatches(lookups, FindAllLookups(line, 0), line,
                                 {args.ignoreSuffixes[k] : k \in DOMAIN args.ignoreSuffixes})
    /\ lineNum' = lineNum + 1
    /\ UNCHANGED ret
    /\ Unscanned

ScanReturn ==
    /\ Scanning /\ args.open = "ok" /\ lineNum = Len(lines)
    /\ ret' = <<lookups, "nil">>
    /\ UNCHANGED <<lineNum, lookups>>
    /\ Unscanned

ScanStep == ScanMissingFile \/ ScanOpenError \/ ScanLine \/ ScanReturn

\* the most lines of a scanned inventory
MaxScanLines == 3

ScanLinePool ==
    { "lookup('role_var','_a')",
      "lookup('role_var','_a',default=[])",
      "lookup(\"role_var\", \"_a\",default={}) lookup ( 'role_var' , '_b',default=omit)",
      "lookup('role_var','_web_port') lookup('role_var','_b')| bool",
      "lookup('vars','_a',default=trueish)" }

IgnorePool == { <<>>, <<"_a">>, <<"_b", "_web_port">> }

InitScan ==
    /\ op = "ScanInventoryForRoleVarLookups"
    /\ \E open \in {"ok", "notexist", "error"}, ignore \in IgnorePool :
          /\ args = [open |-> open, ignoreSuffixes |-> ignore]
          /\ lines \in IF open = "ok" THEN SeqsUpTo(ScanLinePool, MaxScanLines) ELSE {<<>>}
    /\ lineNum = 0
    /\ lookups = <<>>
    /\ ret = <<>>
    /\ state = NewParserState
    /\ role = NewRoleInfo
    /\ scanner = NewDockerVarScanner("resources")

SpecScan == InitScan /\ [][ScanStep]_vars

-----------------------------------------------------------------------------
(* Properties of the inventory scan.                                       *)

ScanReturned == Returned("ScanInventoryForRoleVarLookups") /\ ret[2] = "nil"

IgnoredSuffixes == {args.ignoreSuffixes[k] : k \in DOMAIN args.ignoreSuffixes}

\* the <<suffix, classification>> pairs of the lookups of one line, in order
LineOccurrences(line) ==
    LET found == FindAllLookups(line, 0)
    IN [j \in 1..Len(found) |-> <<found[j], InferRoleVarType(found[j], line)>>]

\* the occurrences of the first k lines, in order
RECURSIVE Occurrences(_)
Occurrences(k) == IF k = 0 THEN <<>> ELSE Occurrences(k - 1) \o LineOccurrences(lines[k])

\* the classification of the first occurrence of s in occ that is not
\* string, and string when there is none
FirstNonString(occ, s) ==
    LET at == {j \in 1..Len(occ) : occ[j][1] = s /\ occ[j][2] # "string"}
    IN IF at = {} THEN "string" ELSE occ[CHOOSE j \in at : \A i \in at : j <= i][2]

\* C12: during a scan a recorded type changes only when it is string, a
\* recorded suffix stays recorded, and after every line each recorded suffix
\* holds the classification of its first occurrence so far that is not
\* string, or string when it has none; the returned map is that of all lines.
C12_FirstNonStringKept ==
    /\ [][\A s \in DOMAIN lookups :
             /\ s \in DOMAIN lookups'
             /\ lookups'[s] # lookups[s] => lookups[s] = "string"]_vars
    /\ [](op = "ScanInventoryForRoleVarLookups" =>
             LET occ == Occurrences(lineNum)
             IN \A s \in DOMAIN lookups : lookups[s] = FirstNonString(occ, s))
    /\ [](ScanReturned =>
             /\ lineNum = Len(lines)
             /\ ret[1] = lookups)

\* _a is looked up with no default (string), then with a list default, then
\* with a dict default: it is a list
C12_Witness ==
    /\ ScanReturned
    /\ Len(lines) = 3
    /\ LineOccurrences(lines[1]) = << <<"_a", "string">> >>
    /\ LineOccurrences(lines[2]) = << <<"_a", "list">> >>
    /\ LineOccurrences(lines[3]) = << <<"_a", "dict/omit">>, <<"_b", "dict/omit">> >>
    /\ ret[1] = [s \in {"_a", "_b"} |-> IF s = "_a" THEN "list" ELSE "dict/omit"]

\* the group of every match of roleVarLookupRe in line, at any offset
LookupSuffixes(line) ==
    {roleVarLookupAt(line, i)[1] : i \in {j \in 0..(Len(line) - 1) : roleVarLookupAt(line, j) # <<>>}}

-----------------------------------------------------------------------------
(* Excluded definitions and the feature flags of the role.                 *)

SkipBlocks ==
    { <<"##########", "# Docker", "# Ports - Sub-section Start", "# [GLOBAL] G">>,
      <<"# Ports - Sub-section End", "">>,
      <<"  - b">>,
      <<"# skip DOCS for this">>,
      <<"# Do not edit or override using the inventory">>,
      <<"plex_instances: 1">>,
      <<"a_paths_folders_list:">> }

InitSkip == InitParse(SkipBlocks)

SpecSkip == InitSkip /\ [][Next]_vars

FlagBlocks ==
    { <<"##########", "# Docker", "# Ports - Sub-section Start", "# note",
        "# Ports - Sub-section End", "">>,
      <<"  traefik_default_sso_middleware">>,
      <<"# Skip docs">>,
      <<"plex_instances: 1">>,
      <<"a_themepark_x_default:">>,
      <<"a_traefik_sso_middleware:">>,
      <<"a_paths_folders_list_custom:">> }

InitFlags == InitParse(FlagBlocks)

SpecFlags == InitFlags /\ [][Next]_vars

SkipMarkers == {"Skip docs", "Do not edit or override using the inventory"}

\* the name or the pending comment excludes the definition
Excluded(name, pending) ==
    \/ Contains(name, "_paths_folders_list")
    \/ \E marker \in SkipMarkers : HasPrefix(ToLower(pending), ToLower(marker))

\* C14: the step over a definition line whose name contains
\* _paths_folders_list, or whose pending comment begins, in any letter case,
\* with Skip docs or Do not edit or override using the inventory, leaves the
\* role (variables, sections, flags) as it is, moves the cursor to where
\* parsing the same value would move it, clears pendingComment and leaves the
\* rest of the parser state as it is.
C14_ExcludedDefinition ==
    [][(/\ Parsing
        /\ variableRe(CurLine) # <<>>
        /\ Excluded(variableRe(CurLine)[1], state.PendingComment))
          => /\ role' = role
             /\ lineNum' = parseMultilineValue(lines, lineNum, variableRe(CurLine)[2]).newLineNum
             /\ state' = [state EXCEPT !.PendingComment = ""]]_vars

\* inside a subsection and under a global comment, a skipped _instances
\* definition and its continuation line
C14_Witness ==
    /\ lines = <<"##########", "# Docker", "# Ports - Sub-section Start", "# [GLOBAL] G",
                 "# skip DOCS for this", "plex_instances: 1", "  - b">>
    /\ lineNum = 7
    /\ AllVars = <<>>
    /\ ~role.HasInstances
    /\ state.PendingComment = ""
    /\ state.GlobalComment = "G"
    /\ state.CurrentSubsection = "Ports"

FlagOf(Test(_)) == \E k \in 1..Len(AllVars) : Test(AllVars[k])

EndsInInstances(v) == HasSuffix(v.Name, "_instances")

EndsInDefaultOrCustom(v) == HasSuffix(v.Name, "_default") \/ HasSuffix(v.Name, "_custom")

EnablesSSO(v) ==
    /\ HasSuffix(v.Name, "_traefik_sso_middleware")
    /\ Contains(v.RawValue, "traefik_default_sso_middleware")

HasThemeParkName(v) == Contains(v.Name, "_themepark_")

\* C15: each of the four flags is true exactly when an emitted variable
\* meets its condition, InstancesVar names an emitted variable ending in
\* _instances when HasInstances is true, and no step clears a flag.
C15_FeatureFlags ==
    /\ [](op = "ParseFile" =>
            /\ role.HasInstances <=> FlagOf(EndsInInstances)
            /\ role.HasInstances =>
                  \E k \in 1..Len(AllVars) :
                      AllVars[k].Name = role.InstancesVar /\ EndsInInstances(AllVars[k])
            /\ role.HasDefaultVars <=> FlagOf(EndsInDefaultOrCustom)
            /\ role.SSOEnabled <=> FlagOf(EnablesSSO)
            /\ role.HasThemePark <=> FlagOf(HasThemeParkName))
    /\ [][/\ role.HasInstances => role'.HasInstances
          /\ role.HasDefaultVars => role'.HasDefaultVars
          /\ role.SSOEnabled => role'.SSOEnabled
          /\ role.HasThemePark => role'.HasThemePark]_vars

\* an excluded _custom definition, an SSO definition with the middleware on
\* its continuation line and an _instances definition
C15_Witness ==
    /\ lines = <<"a_paths_folders_list_custom:", "a_traefik_sso_middleware:",
                 "  traefik_default_sso_middleware", "plex_instances: 1">>
    /\ lineNum = 4
    /\ Len(AllVars) = 2
    /\ role.SSOEnabled /\ role.HasInstances /\ role.InstancesVar = "plex_instances"
    /\ ~role.HasDefaultVars /\ ~role.HasThemePark

-----------------------------------------------------------------------------
(* The saltbox_automation frontmatter block (internal/docs/frontmatter.go).*)
(* A *bool is <<>> for nil and <<b>> for a pointer to b.                   *)

\* strings.EqualFold
EqualFold(s, t) == ToLower(s) = ToLower(t)

NilAutomationConfig ==
    [IsNil |-> TRUE, Disabled |-> FALSE,
     Sections |-> [Inventory |-> <<>>, Overview |-> <<>>],
     Inventory |-> [ShowSections |-> <<>>, HideSections |-> <<>>]]

IsInventorySectionEnabledFlagOnly(c) ==
    IF c.IsNil THEN TRUE
    ELSE IF c.Sections.Inventory = <<>> THEN ~c.Disabled
    ELSE c.Sections.Inventory[1]

IsInventorySectionEnabled(c) ==
    IF c.IsNil THEN TRUE
    ELSE IF c.Disabled THEN FALSE
    ELSE IF c.Sections.Inventory = <<>> THEN TRUE
    ELSE c.Sections.Inventory[1]

IsOverviewSectionEnabled(c) ==
    IF c.IsNil THEN TRUE
    ELSE IF c.Disabled THEN FALSE
    ELSE IF c.Sections.Overview = <<>> THEN TRUE
    ELSE c.Sections.Overview[1]

ShouldShowSectionShowFirst(c, sectionName) ==
    IF c.IsNil THEN TRUE
    ELSE IF /\ Len(c.Inventory.ShowSections) > 0
            /\ \E k \in 1..Len(c.Inventory.ShowSections) :
                  EqualFold(c.Inventory.ShowSections[k], sectionName)
         THEN TRUE
    ELSE IF \E k \in 1..Len(c.Inventory.HideSections) :
                EqualFold(c.Inventory.HideSections[k], sectionName)
         THEN FALSE
    ELSE Len(c.Inventory.ShowSections) = 0

ShouldShowSection(c, sectionName) ==
    IF c.IsNil THEN TRUE
    ELSE IF \E k \in 1..Len(c.Inventory.HideSections) :
                EqualFold(c.Inventory.HideSections[k], sectionName)
         THEN FALSE
    ELSE IF Len(c.Inventory.ShowSections) > 0
         THEN \E k \in 1..Len(c.Inventory.ShowSections) :
                  EqualFold(c.Inventory.ShowSections[k], sectionName)
    ELSE TRUE

IsInventorySectionEnabledCall ==
    /\ op = "IsInventorySectionEnabled" /\ ret = <<>>
    /\ ret' = <<IsInventorySectionEnabled(args.c)>>
    /\ UNCHANGED <<lines, lineNum, state, role, lookups, scanner, op, args>>

IsOverviewSectionEnabledCall ==
    /\ op = "IsOverviewSectionEnabled" /\ ret = <<>>
    /\ ret' = <<IsOverviewSectionEnabled(args.c)>>
    /\ UNCHANGED <<lines, lineNum, state, role, lookups, scanner, op, args>>

ShouldShowSectionCall ==
    /\ op = "ShouldShowSection" /\ ret = <<>>
    /\ ret' = <<ShouldShowSection(args.c, args.sectionName)>>
    /\ UNCHANGED <<lines, lineNum, state, role, lookups, scanner, op, args>>

\* the most entries of show_sections and of hide_sections
MaxListed == 2

ListedNames == {"DOCKER", "Web"}

AskedNames == {"Docker", "web", "DNS"}

AutomationConfigs ==
    {NilAutomationConfig} \cup
    { [IsNil |-> FALSE, Disabled |-> d,
       Sections |-> [Inventory |-> i, Overview |-> o],
       Inventory |-> [ShowSections |-> sh, HideSections |-> hi]] :
          d \in BOOLEAN,
          i \in {<<>>, <<TRUE>>, <<FALSE>>}, o \in {<<>>, <<TRUE>>, <<FALSE>>},
          sh \in SeqsUpTo(ListedNames, MaxListed), hi \in SeqsUpTo(ListedNames, MaxListed) }

InitFrontmatter ==
    \/ InitCall("IsInventorySectionEnabled", {[c |-> c] : c \in AutomationConfigs})
    \/ InitCall("IsOverviewSectionEnabled", {[c |-> c] : c \in AutomationConfigs})
    \/ InitCall("ShouldShowSection",
                {[c |-> c, sectionName |-> n] : c \in AutomationConfigs, n \in AskedNames})

SpecFrontmatter ==
    InitFrontmatter
    /\ [][IsInventorySectionEnabledCall \/ IsOverviewSectionEnabledCall
          \/ ShouldShowSectionCall]_vars

\* C16: with no block both sections are enabled; with disabled set neither
\* is, whatever the section flags say; otherwise a section is enabled
\* unless its own flag is given and false.
C16_SectionEnabled ==
    /\ Returned("IsInventorySectionEnabled") =>
          ret[1] = (args.c.IsNil \/ (~args.c.Disabled /\ args.c.Sections.Inventory # <<FALSE>>))
    /\ Returned("IsOverviewSectionEnabled") =>
          ret[1] = (args.c.IsNil \/ (~args.c.Disabled /\ args.c.Sections.Overview # <<FALSE>>))

\* disabled with sections.inventory true: the inventory section is off
C16_Witness ==
    /\ Returned("IsInventorySectionEnabled")
    /\ ~args.c.IsNil /\ args.c.Disabled
    /\ args.c.Sections.Inventory = <<TRUE>>
    /\ ret = <<FALSE>>

\* name is in list, letter case aside
ListedIn(list, name) == \E k \in 1..Len(list) : ToLower(list[k]) = ToLower(name)

\* C17: a section listed in hide_sections is hidden, also when show_sections
\* lists it; one not hidden is shown exactly when show_sections is empty or
\* lists it; names are compared without regard to letter case.
C17_ShowAndHide ==
    Returned("ShouldShowSection") =>
        LET show == args.c.Inventory.ShowSections
            hide == args.c.Inventory.HideSections
        IN /\ ListedIn(hide, args.sectionName) => ret[1] = FALSE
           /\ ~ListedIn(hide, args.sectionName) =>
                 ret[1] = (show = <<>> \/ ListedIn(show, args.sectionName))

\* Docker is listed as DOCKER in both lists: it is hidden
C17_Witness ==
    /\ Returned("ShouldShowSection")
    /\ ~args.c.IsNil
    /\ args.sectionName = "Docker"
    /\ args.c.Inventory.ShowSections = <<"DOCKER">>
    /\ args.c.Inventory.HideSections = <<"Web", "DOCKER">>
    /\ ret = <<FALSE>>

-----------------------------------------------------------------------------
(* Managed sections of a documentation page (internal/docs/markers.go).    *)

BeginMarker(sectionName) == "<!-- BEGIN " \o sectionName \o " -->"

EndMarker(sectionName) == "<!-- END " \o sectionName \o " -->"

NilSection == [IsNil |-> TRUE, Name |-> "", Content |-> "", StartIndex |-> 0, EndIndex |-> 0]

FindManagedSectionAnyEnd(content, sectionName) ==
    LET startMarker == BeginMarker(sectionName)
        endMarker == EndMarker(sectionName)
        startIdx == Index(content, startMarker)
    IN IF startIdx = -1 THEN NilSection
       ELSE LET endRel == Index(content, endMarker)
            IN IF endRel = -1 THEN NilSection
               ELSE LET endIdx == endRel + Len(endMarker)
                    IN [IsNil |-> FALSE,
                        Name |-> sectionName,
                        Content |-> SubSeq(content, startIdx + Len(startMarker) + 1,
                                           endIdx - Len(endMarker)),
                        StartIndex |-> startIdx,
                        EndIndex |-> endIdx]

\* StartLine and EndLine of the section are not read by UpdateManagedSection
FindManagedSection(content, sectionName) ==
    LET startMarker == BeginMarker(sectionName)
        endMarker == EndMarker(sectionName)
        startIdx == Index(content, startMarker)
    IN IF startIdx = -1 THEN NilSection
       ELSE LET endRel == Index(From(content, startIdx), endMarker)
            IN IF endRel = -1 THEN NilSection
               ELSE LET endIdx == endRel + startIdx + Len(endMarker)
                    IN [IsNil |-> FALSE,
                        Name |-> sectionName,
                        Content |-> SubSeq(content, startIdx + Len(startMarker) + 1,
                                           endIdx - Len(endMarker)),
                        StartIndex |-> startIdx,
                        EndIndex |-> endIdx]

\* <<updated content, error>>
UpdateManagedSection(content, sectionName, newContent) ==
    LET section == FindManagedSection(content, sectionName)
    IN IF section.IsNil THEN <<"", "managed section not found">>
       ELSE << SubSeq(content, 1, section.StartIndex)
               \o BeginMarker(sectionName) \o "\n" \o newContent
               \o (IF HasSuffix(newContent, "\n") THEN "" ELSE "\n")
               \o EndMarker(sectionName)
               \o From(content, section.EndIndex),
               "nil" >>

UpdateManagedSectionCall ==
    /\ op = "UpdateManagedSection" /\ ret = <<>>
    /\ ret' = UpdateManagedSection(args.content, args.sectionName, args.newContent)
    /\ UNCHANGED <<lines, lineNum, state, role, lookups, scanner, op, args>>

\* the most pieces of a page
MaxPieces == 4

PagePieces ==
    { "# T\n", "old\n", "<!-- BEGIN V -->", "<!-- END V -->", "<!-- BEGIN O -->", "<!-- END O -->" }

RECURSIVE Concat(_)
Concat(pieces) == IF pieces = <<>> THEN "" ELSE Head(pieces) \o Concat(Tail(pieces))

InitManaged ==
    InitCall("UpdateManagedSection",
             { [content |-> Concat(ps), sectionName |-> n, newContent |-> new] :
                   ps \in SeqsUpTo(PagePieces, MaxPieces),
                   n \in {"V"},
                   new \in {"", "| a |", "| a |\n"} })

SpecManaged == InitManaged /\ [][UpdateManagedSectionCall]_vars

\* content = before \o begin marker \o between \o end marker \o after, with
\* the first begin marker of content and the first end marker after it
SplitAtMarkers(content, sectionName, before, between, after) ==
    LET b == BeginMarker(sectionName)
        e == EndMarker(sectionName)
    IN /\ content = before \o b \o between \o e \o after
       /\ ~Contains(SubSeq(before \o b, 1, Len(before) + Len(b) - 1), b)
       /\ ~Contains(SubSeq(b \o between \o e, 1, Len(b) + Len(between) + Len(e) - 1), e)

\* the 0-based offsets of w in s
Offsets(s, w) == {i \in 0..(Len(s) - Len(w)) : HasAt(s, i, w)}

\* C18: when the page holds the begin marker and an end marker after it, the
\* result is the text before the begin marker, the begin marker, a newline,
\* newContent, a newline unless newContent ends in one, the end marker and
\* the text after the end marker, with no error; when it does not, the
\* result is an error and the empty content.
C18_ManagedSectionReplaced ==
    Returned("UpdateManagedSection") =>
        LET c == args.content
            n == args.sectionName
            new == args.newContent
            splits == {p \in Offsets(c, BeginMarker(n)) \X Offsets(c, EndMarker(n)) :
                          SplitAtMarkers(c, n, SubSeq(c, 1, p[1]),
                                         SubSeq(c, p[1] + Len(BeginMarker(n)) + 1, p[2]),
                                         SubSeq(c, p[2] + Len(EndMarker(n)) + 1, Len(c)))}
        IN /\ \A p \in splits :
                /\ ret[2] = "nil"
                /\ ret[1] = SubSeq(c, 1, p[1]) \o BeginMarker(n) \o "\n" \o new
                              \o (IF HasSuffix(new, "\n") THEN "" ELSE "\n")
                              \o EndMarker(n) \o SubSeq(c, p[2] + Len(EndMarker(n)) + 1, Len(c))
           /\ (~Contains(c, BeginMarker(n))
                 \/ \A i \in 0..Len(c) : HasAt(c, i, BeginMarker(n))
                                            => ~Contains(From(c, i), EndMarker(n)))
                 => /\ ret[1] = ""
                    /\ ret[2] # "nil"
           /\ splits = {} <=> ret[2] # "nil"

\* a section with old text, replaced by a table row without a final newline
C18_Witness ==
    /\ Returned("UpdateManagedSection")
    /\ args.content = "# T\n<!-- BEGIN V -->old\n<!-- END V -->"
    /\ args.newContent = "| a |"
    /\ ret = <<"# T\n<!-- BEGIN V -->\n| a |\n<!-- END V -->", "nil">>

-----------------------------------------------------------------------------
(* Indented definitions and indented comment lines.                        *)

BareBlocks ==
    { <<"##########", "# Docker", "# Ports - Sub-section Start", "# note",
        "# Ports - Sub-section End", "">>,
      <<"a: 1">>,
      <<"b:">>,
      <<"d_paths_folders_list: 2">>,
      <<"  key: v">>,
      <<"  # c: d">>,
      <<"  # e">> }

InitBare == InitParse(BareBlocks)

SpecBare == InitBare /\ [][Next]_vars

\* line is leading blanks or tabs followed by a definition
IndentedDefinition(line) ==
    /\ LeadingRun(line, IndentChars) > 0
    /\ variableRe(TrimSpace(line)) # <<>>

\* C19 as stated: the step of the main loop over a line made of leading
\* white space and identifier: value emits a Variable with that name and
\* that value as its first value line.
C19_AsStated ==
    [][(/\ Parsing
        /\ IndentedDefinition(CurLine)
        /\ ~shouldSkipVariable(variableRe(TrimSpace(CurLine))[1], state.PendingComment))
          => /\ Emits
             /\ Emitted.Name = variableRe(TrimSpace(CurLine))[1]
             /\ Emitted.ValueLines[1] = variableRe(TrimSpace(CurLine))[2]]_vars

\* the first value line puts the value in bare-continuation mode
BareMode(first) ==
    LET t == TrimSpace(first)
    IN /\ t # ""
       /\ t \notin BlockIndicators
       /\ ~HasSuffix(t, "[")
       /\ ~HasSuffix(t, "{")

\* C20 as stated: no value line after the first of a variable in
\* bare-continuation mode is a comment line, with or without a colon.
C20_AsStated ==
    \A i \in 1..Len(AllVars) :
        BareMode(AllVars[i].ValueLines[1]) =>
            \A k \in 2..Len(AllVars[i].ValueLines) :
                ~HasPrefix(TrimSpace(AllVars[i].ValueLines[k]), "#")

-----------------------------------------------------------------------------
(* Flow collections and block scalars.                                     *)

FlowBlocks ==
    { <<"##########", "# Docker", "# Ports - Sub-section Start", "# note",
        "# Ports - Sub-section End", "">>,
      <<"c: [">>,
      <<"d: {">>,
      <<"e_paths_folders_list: [">>,
      <<"  x ]">>,
      <<"  y }">>,
      <<"  z">> }

InitFlow == InitParse(FlowBlocks)

SpecFlow == InitFlow /\ [][Next]_vars

\* the closer of the opener that ends the first value line, "" for none
MatchingCloser(first) ==
    LET t == TrimSpace(first)
    IN IF HasSuffix(t, "[") THEN "]" ELSE IF HasSuffix(t, "{") THEN "}" ELSE ""

\* the source line after the value of v continues a flow collection
FlowContinues(v) ==
    LET next == v.LineNumber + Len(v.ValueLines)
    IN /\ next < Len(lines)
       /\ TrimSpace(Line(lines, next)) # ""
       /\ Indented(Line(lines, next))

\* C21 as stated: the value of a flow collection has no line ending with the
\* matching closer before its last line, and when its last line does not end
\* with the matching closer (it may end with the other one) the value was
\* ended by a blank line, a non-indented line or the end of input.
C21_AsStated ==
    \A i \in 1..Len(AllVars) :
        LET v == AllVars[i]
            n == Len(v.ValueLines)
            closer == MatchingCloser(v.ValueLines[1])
        IN closer # "" =>
              /\ \A k \in 2..(n - 1) : ~HasSuffix(TrimSpace(v.ValueLines[k]), closer)
              /\ (n = 1 \/ ~HasSuffix(TrimSpace(v.ValueLines[n]), closer)) => ~FlowContinues(v)

\* the first value line puts the value in block-scalar mode
BlockMode(first) == TrimSpace(first) \in BlockIndicators

\* the nearest non-empty source line after the 0-based index j exists and
\* begins with a space or tab
NextNonEmptyIndented(j) ==
    \E m \in (j + 1)..(Len(lines) - 1) :
        /\ Line(lines, m) # ""
        /\ \A x \in (j + 1)..(m - 1) : Line(lines, x) = ""
        /\ Indented(Line(lines, m))

\* C22 as stated: every empty line in the value of a block scalar is
\* followed, after empty lines only, by an indented line, and the value does
\* not end with an empty line.
C22_AsStated ==
    \A i \in 1..Len(AllVars) :
        LET v == AllVars[i]
            n == Len(v.ValueLines)
        IN BlockMode(v.ValueLines[1]) =>
              /\ \A k \in 2..n :
                    v.ValueLines[k] = "" => NextNonEmptyIndented(v.LineNumber + k - 1)
              /\ n >= 2 => v.ValueLines[n] # ""

-----------------------------------------------------------------------------
(* The [NOGLOBAL] tag and the life of the global comment.                  *)

NoGlobalTag == "[NOGLOBAL]"

\* p with its first [NOGLOBAL] tag and the white space after it removed
Detagged(p) ==
    LET i == Index(p, NoGlobalTag)
        after == i + Len(NoGlobalTag)
    IN IF i < 0 THEN p
       ELSE SubSeq(p, 1, i) \o From(p, after + RunFrom(p, after + 1, SpaceChars))

\* c holds none of the lines of the global comment g
HoldsNoneOf(c, g) ==
    g # "" => \A k \in 1..Len(Split(g, "\n")) : ~Contains(c, Split(g, "\n")[k])

\* C23 as stated: a variable emitted while the pending comment holds the
\* [NOGLOBAL] tag, on its first line or on a later one, gets the pending
\* comment without the tag and none of the global comment.
C23_AsStated ==
    [][(Emits /\ Contains(state.PendingComment, NoGlobalTag))
          => /\ Emitted.Comment = Detagged(state.PendingComment)
             /\ HoldsNoneOf(Emitted.Comment, state.GlobalComment)]_vars

\* C23 (amended): a variable emitted while the pending comment begins with
\* the [NOGLOBAL] tag gets the pending comment without the tag and none of
\* the global comment; a tag that does not begin the pending comment is not
\* recognised: it stays in the comment and the global comment is applied.
C23_NoGlobalPrefix ==
    [][Emits =>
          /\ HasPrefix(state.PendingComment, NoGlobalTag) =>
                /\ Emitted.Comment = Detagged(state.PendingComment)
                /\ HoldsNoneOf(Emitted.Comment, state.GlobalComment)
          /\ (/\ Contains(state.PendingComment, NoGlobalTag)
              /\ ~HasPrefix(state.PendingComment, NoGlobalTag)) =>
                Emitted.Comment = IF state.GlobalComment = "" THEN state.PendingComment
                                  ELSE state.GlobalComment \o "\n" \o state.PendingComment]_vars

\* a tagged comment under a global comment: the variable gets the tagged
\* text only
C23_Witness ==
    /\ lines = <<"# [GLOBAL] G2", "# [NOGLOBAL] Only this", "foo: 1">>
    /\ lineNum = 3
    /\ Len(AllVars) = 1
    /\ AllVars[1].Comment = "Only this"
    /\ state.GlobalComment = "G2"

GlobalBlocks ==
    { <<"# [GLOBAL] G">>,
      <<"# n">>,
      <<"# [NOGLOBAL] m">>,
      <<"foo: 1">>,
      <<"", "d_paths_folders_list: 2">>,
      <<"##########", "# Author: x", "  - b">>,
      <<"##########", "# Docker">>,
      <<"# P - Sub-section Start">>,
      <<"# P - Sub-section End">> }

InitGlobal == InitParse(GlobalBlocks)

SpecGlobal == InitGlobal /\ [][Next]_vars

\* the section name found by the lookahead of a header line, <<>> when none
HeaderName ==
    IF lineNum + 1 < Len(lines)
    THEN sectionNameRe(TrimSpace(Line(lines, lineNum + 1))) ELSE <<>>

\* the step handles a subsection end marker or the header of a non-metadata section
ClearingStep ==
    /\ Parsing
    /\ \/ LineKind(CurLine) = "subsectionEnd"
       \/ /\ LineKind(CurLine) = "header"
          /\ HeaderName # <<>>
          /\ ~isMetaSection(HeaderName[1])

\* the step handles a comment line carrying the [GLOBAL] tag
GlobalLineStep ==
    /\ Parsing /\ LineKind(CurLine) = "comment"
    /\ globalPrefixRe(TrimSpace(TrimPrefix(CurTrimmed, "#")))

\* the global comment survives every step but the two clearing ones, and is
\* cleared by nothing else
GlobalStaysInForce ==
    /\ (~ClearingStep /\ ~GlobalLineStep) => state'.GlobalComment = state.GlobalComment
    /\ (~ClearingStep /\ GlobalLineStep /\ state.GlobalComment # "") =>
           HasPrefix(state'.GlobalComment, state.GlobalComment \o "\n")
    /\ ClearingStep => state'.GlobalComment = ""

\* pendingComment is empty right after an emission and after a subsection marker
PendingCleared ==
    (Emits \/ (Parsing /\ LineKind(CurLine) \in {"subsectionStart", "subsectionEnd"}))
        => state'.PendingComment = ""

\* the comment of a variable to which the global comment was applied
GlobalApplied ==
    Emitted.Comment = IF state.PendingComment = "" THEN state.GlobalComment
                      ELSE state.GlobalComment \o "\n" \o state.PendingComment

\* C24 as stated: the global comment stays in force across emissions, excluded
\* variables, ordinary comments, blank lines, metadata banners and subsection
\* starts, is cleared only by a subsection end or a non-metadata header, and is
\* applied to every variable emitted while it is in force; pendingComment is
\* empty after every emission and subsection marker.
C24_AsStated ==
    [][/\ GlobalStaysInForce
       /\ PendingCleared
       /\ (Emits /\ state.GlobalComment # "") => GlobalApplied]_vars

\* C24, amended: as above, but the global comment in force is applied to every
\* emitted variable whose pending comment does not begin with [NOGLOBAL]; a
\* variable with such a pending comment gets the pending comment without the
\* tag, and the global comment stays in force for the variables after it.
C24_GlobalInForce ==
    [][/\ GlobalStaysInForce
       /\ PendingCleared
       /\ (Emits /\ state.GlobalComment # "") =>
             IF HasPrefix(state.PendingComment, NoGlobalTag)
             THEN Emitted.Comment = Detagged(state.PendingComment)
             ELSE GlobalApplied]_vars

C24_Witness ==
    /\ lines = <<"# [GLOBAL] G", "# P - Sub-section Start", "", "d_paths_folders_list: 2", "foo: 1">>
    /\ lineNum = 5
    /\ Len(AllVars) = 1 /\ AllVars[1].Comment = "G" /\ AllVars[1].Subsection = "P"
    /\ state.GlobalComment = "G" /\ state.PendingComment = ""

-----------------------------------------------------------------------------
(* InferRoleVarType applied once to a suffix and a line drawn from a pool. *)

InferRoleVarTypeCall ==
    /\ op = "InferRoleVarType" /\ ret = <<>>
    /\ ret' = <<InferRoleVarType(args.suffix, args.line)>>
    /\ UNCHANGED <<lines, lineNum, state, role, lookups, scanner, op, args>>

RoleVarSuffixes ==
    {"_depends_on_healthchecks", "_depends_on_delay", "_depends_on", "_depends_on_x",
     "_scheme", "_scheme_enabled", "_enabled", "_proxy_url", "_domain", "_subdomain_port",
     "_url_timeout", "_port", "_timeout", "_x"}

RoleVarLines ==
    {"", "x | bool", "default='a') | bool", "default=\"a\", default=true", "default='true'",
     "default=True", "default=false, default={}", "default=truex", "default=omit, default=[]",
     "default={}", "default=[]", "default=[1]"}

InitRoleVar == InitCall("InferRoleVarType", [suffix : RoleVarSuffixes, line : RoleVarLines])

SpecRoleVar == InitRoleVar /\ [][InferRoleVarTypeCall]_vars

\* the rule of the suffix table that decides, 0 when the suffix decides nothing
SuffixRule(s) ==
    IF s = "_depends_on_healthchecks" THEN 1
    ELSE IF s = "_depends_on_delay" THEN 2
    ELSE IF s = "_depends_on" THEN 3
    ELSE IF Contains(s, "_scheme") THEN 4
    ELSE IF Contains(s, "_enabled") \/ Contains(s, "_proxy") THEN 5
    ELSE IF Contains(s, "_domain") \/ Contains(s, "_subdomain") \/ Contains(s, "_url") THEN 6
    ELSE IF Contains(s, "_port") \/ Contains(s, "_timeout") THEN 7
    ELSE 0

SuffixRuleType == <<StringTrueFalse, StringNumber, String, StringHTTPHTTPS, Bool, String, StringNumber>>

\* C25: the exact suffixes and then the suffix patterns, in their order, decide
\* the type whatever the line holds; only a suffix matching none of them leaves
\* the decision to the line, where `| bool` wins over a quoted default, that
\* over default=true/false, that over default={} or omit, that over
\* default=[]; with no rule matching the result is string.
C25_FixedPrecedence ==
    Returned("InferRoleVarType") =>
        LET s == args.suffix
            l == args.line
            r == ret[1]
        IN /\ SuffixRule(s) # 0 => r = SuffixRuleType[SuffixRule(s)]
           /\ SuffixRule(s) = 0 =>
                /\ Contains(l, "| bool") => r = Bool
                /\ (~Contains(l, "| bool") /\ defaultQuotedRe(l)) => r = String
                /\ (~Contains(l, "| bool") /\ ~defaultQuotedRe(l) /\ defaultBoolRe(l)) => r = Bool
                /\ (~Contains(l, "| bool") /\ ~defaultQuotedRe(l) /\ ~defaultBoolRe(l)
                       /\ defaultDictOmitRe(l)) => r = DictOmit
                /\ (~Contains(l, "| bool") /\ ~defaultQuotedRe(l) /\ ~defaultBoolRe(l)
                       /\ ~defaultDictOmitRe(l) /\ defaultListRe(l)) => r = List
                /\ (~Contains(l, "| bool") /\ ~defaultQuotedRe(l) /\ ~defaultBoolRe(l)
                       /\ ~defaultDictOmitRe(l) /\ ~defaultListRe(l)) => r = String

C25_Witness ==
    /\ Returned("InferRoleVarType")
    /\ args.suffix = "_subdomain_port" /\ args.line = "default='a') | bool"
    /\ ret = <<String>>

-----------------------------------------------------------------------------
(* InferType and the iteration order of the configured tables.             *)

\* the categories that InferType can return for one triple of arguments
InferTypeResults(name, value, cfg) ==
    {InferType(name, value, cfg, exactOrder, overridesOrder) :
        exactOrder \in KeyOrders(cfg.Exact), overridesOrder \in KeyOrders(cfg.Overrides)}

\* C26 as stated: InferType is a function of (name, value, configuration): the
\* category an evaluation returns is the one every evaluation with the same
\* arguments returns, also when several keys of the exact table (or of the
\* overrides table) end the name and map to different types.
C26_AsStated ==
    Returned("InferType") =>
        InferTypeResults(args.name, args.value, args.cfg) = {ret[1]}

-----------------------------------------------------------------------------
(* internal/parser/docker.go: the scanner of docker_var lookups and its    *)
(* cache.  args is the file system the scanner reads: the outcome of       *)
(* os.ReadDir and the directory entries; ret is the list of what the calls *)
(* made so far returned.                                                   *)

\* lookup\s*\(\s*['"]docker_var['"]\s*,\s*['"]([^'"]+)['"] matched at the
\* 0-based offset i of s: <<>> for no match, <<group 1, end offset>> for a
\* match
dockerVarLookupAt(s, i) ==
    IF ~HasAt(s, i, "lookup") THEN <<>>
    ELSE LET p1 == i + 6 + RunFrom(s, i + 7, SpaceChars)
         IN IF At(s, p1 + 1) # "(" THEN <<>>
            ELSE LET p2 == p1 + 1 + RunFrom(s, p1 + 2, SpaceChars)
                 IN IF At(s, p2 + 1) \notin Quotes \/ ~HasAt(s, p2 + 1, "docker_var")
                       \/ At(s, p2 + 12) \notin Quotes
                    THEN <<>>
                    ELSE LET p3 == p2 + 12 + RunFrom(s, p2 + 13, SpaceChars)
                         IN IF At(s, p3 + 1) # "," THEN <<>>
                            ELSE LET p4 == p3 + 1 + RunFrom(s, p3 + 2, SpaceChars)
                                     n == RunUntil(s, p4 + 2, Quotes)
                                 IN IF At(s, p4 + 1) \notin Quotes \/ n < 1
                                       \/ At(s, p4 + 2 + n) \notin Quotes
                                    THEN <<>>
                                    ELSE <<SubSeq(s, p4 + 2, p4 + 1 + n), p4 + 2 + n>>

\* dockerVarLookupRe.FindAllStringSubmatch(s[i:], -1): group 1 of the leftmost
\* non-overlapping matches, in order
RECURSIVE FindAllDockerLookups(_, _)
FindAllDockerLookups(s, i) ==
    LET k == i + RunUntil(s, i + 1, {"l"})
    IN IF k >= Len(s) THEN <<>>
       ELSE LET m == dockerVarLookupAt(s, k)
            IN IF m = <<>> THEN FindAllDockerLookups(s, k + 1)
               ELSE <<m[1]>> \o FindAllDockerLookups(s, m[2])

\* a yaml.Node: Kind is "document", "sequence", "mapping", "scalar" or "" (the
\* zero Node that a failed Unmarshal leaves)
Node(kind, value, content) == [Kind |-> kind, Value |-> value, Content |-> content]

Scalar(value) == Node("scalar", value, <<>>)

\* the keys that one _docker_var_specs mapping adds to the cache
SpecKeys(value) ==
    {TrimPrefix(value.Content[j].Value, "_docker_") :
        j \in {j \in 1..Len(value.Content) :
                  /\ j % 2 = 1 /\ j + 1 <= Len(value.Content)
                  /\ value.Content[j].Kind = "scalar"
                  /\ HasPrefix(value.Content[j].Value, "_docker_")
                  /\ TrimPrefix(value.Content[j].Value, "_docker_") # ""}}

\* the keys that walk(node) adds to the cache
RECURSIVE walk(_)
walk(node) ==
    IF node.Kind \in {"document", "sequence"}
    THEN UNION {walk(node.Content[i]) : i \in 1..Len(node.Content)}
    ELSE IF node.Kind = "mapping"
    THEN UNION {LET key   == node.Content[i]
                    value == node.Content[i + 1]
                IN (IF key.Kind = "scalar" /\ key.Value = "_docker_var_specs"
                       /\ value.Kind = "mapping"
                    THEN SpecKeys(value) ELSE {})
                   \cup walk(value) :
                i \in {i \in 1..Len(node.Content) : i % 2 = 1 /\ i + 1 <= Len(node.Content)}}
    ELSE {}

\* addDockerVarSpecsToCache; content.Root is the Node that yaml.Unmarshal
\* makes of content.Text
addDockerVarSpecsToCache(cache, content) == cache \cup walk(content.Root)

\* the body of the loop over the directory entries, for one entry
ScanEntry(cache, entry) ==
    IF entry.IsDir \/ ~HasSuffix(entry.Name, ".yml") THEN cache
    ELSE IF entry.ReadErr THEN cache
    ELSE LET matches == FindAllDockerLookups(entry.Content.Text, 0)
         IN addDockerVarSpecsToCache(
                cache \cup {TrimPrefix(matches[i], "_docker_") : i \in 1..Len(matches)},
                entry.Content)

RECURSIVE ScanEntries(_, _)
ScanEntries(cache, entries) ==
    IF entries = <<>> THEN cache
    ELSE ScanEntries(ScanEntry(cache, Head(entries)), Tail(entries))

\* mapKeys: the keys of the map, in any of the orders a range loop can take
mapKeys(m) ==
    {o \in [1..Cardinality(m) -> m] : \A i, j \in DOMAIN o : i # j => o[i] # o[j]}

Result(suffixes, err) == [suffixes |-> suffixes, err |-> err]

MaxCalls == 3

FindDockerVarLookups ==
    /\ op = "FindDockerVarLookups" /\ Len(ret) < MaxCalls
    /\ IF scanner.cache # <<>>
       THEN /\ \E keys \in mapKeys(scanner.cache[1]) : ret' = Append(ret, Result(keys, <<>>))
            /\ UNCHANGED scanner
       ELSE IF args.dir = "notexist"
       THEN /\ scanner' = [scanner EXCEPT !.cache = <<{}>>]
            /\ ret' = Append(ret, Result(<<>>, <<>>))
       ELSE IF args.dir = "error"
       THEN /\ scanner' = [scanner EXCEPT !.cache = <<{}>>]
            /\ ret' = Append(ret, Result(<<>>, <<"ReadDir">>))
       ELSE LET cache == ScanEntries({}, args.entries)
            IN /\ scanner' = [scanner EXCEPT !.cache = <<cache>>]
               /\ \E keys \in mapKeys(cache) : ret' = Append(ret, Result(keys, <<>>))
    /\ UNCHANGED <<lines, lineNum, state, role, lookups, op, args>>

Entry(name, isDir, readErr, text, root) ==
    [Name |-> name, IsDir |-> isDir, ReadErr |-> readErr,
     Content |-> [Text |-> text, Root |-> root]]

\* the entries of the docker tasks directory, in the order of their names
EntryPool ==
    << Entry("a.yml", FALSE, FALSE, "x: lookup('docker_var', '_docker_envs')",
             Node("document", "", <<Node("mapping", "",
                 <<Scalar("x"), Scalar("lookup('docker_var', '_docker_envs')")>>)>>)),
       Entry("b.yml", FALSE, FALSE, "- _docker_var_specs:\n    _docker_ports: 1\n    other: 2\n    _docker_: 3",
             Node("document", "", <<Node("sequence", "", <<Node("mapping", "",
                 <<Scalar("_docker_var_specs"),
                   Node("mapping", "", <<Scalar("_docker_ports"), Scalar("1"),
                                         Scalar("other"), Scalar("2"),
                                         Scalar("_docker_"), Scalar("3")>>)>>)>>)>>)),
       Entry("c.yml", FALSE, FALSE, "y: [ lookup (\"docker_var\" ,'labels')",
             Node("", "", <<>>)),
       Entry("d.yml", TRUE, FALSE, "", Node("", "", <<>>)),
       Entry("e.txt", FALSE, FALSE, "lookup('docker_var', '_docker_user')", Scalar("lookup('docker_var', '_docker_user')")),
       Entry("f.yml", FALSE, TRUE, "", Node("", "", <<>>)) >>

\* the entries of EntryPool with an index in I, in the order of the pool
RECURSIVE Listing(_, _)
Listing(I, i) ==
    IF i > Len(EntryPool) THEN <<>>
    ELSE (IF i \in I THEN <<EntryPool[i]>> ELSE <<>>) \o Listing(I, i + 1)

FileSystems ==
    {[dir |-> "notexist", entries |-> <<>>], [dir |-> "error", entries |-> <<>>]}
        \cup {[dir |-> "ok", entries |-> Listing(I, 1)] : I \in SUBSET (1..Len(EntryPool))}

InitDocker ==
    /\ op = "FindDockerVarLookups"
    /\ args \in FileSystems
    /\ scanner = NewDockerVarScanner("resources")
    /\ ret = <<>>
    /\ lines = <<>>
    /\ lineNum = 0
    /\ lookups = <<>>
    /\ state = NewParserState
    /\ role = NewRoleInfo

SpecDocker == InitDocker /\ [][FindDockerVarLookups]_vars

\* the set of the suffixes a call returned
SuffixSet(r) == {r.suffixes[i] : i \in 1..Len(r.suffixes)}

\* C27 as stated: every call on one scanner returns the suffix set and the
\* error status of the first call, no call after the first changes the cache,
\* and a failure to read the directory reported by the first call is reported
\* again by every later call.
C27_AsStated ==
    /\ [](\A i \in 1..Len(ret) : /\ SuffixSet(ret[i]) = SuffixSet(ret[1])
                                 /\ ret[i].err = ret[1].err)
    /\ [][Len(ret) >= 1 => scanner' = scanner]_vars

\* what the code keeps of C27: the suffix set never changes, the cache is
\* written by the first call only, and every call after the first reports
\* success
C27_CacheBuiltOnce ==
    /\ [](\A i \in 1..Len(ret) : SuffixSet(ret[i]) = SuffixSet(ret[1]))
    /\ [](\A i \in 2..Len(ret) : ret[i].err = <<>>)
    /\ [][Len(ret) >= 1 => scanner' = scanner]_vars

\* a first call that reported the failure of os.ReadDir, followed by a call
\* that returned an empty list and no error
C27_ErrorForgotten ==
    /\ args.dir = "error" /\ Len(ret) = 2
    /\ ret[1].err # <<>> /\ ret[2] = Result(<<>>, <<>>)

\* a scanner whose cache was built from lookups and _docker_var_specs keys and
\* then read by the later calls
C27_AllSourcesScanned ==
    /\ Len(args.entries) = Len(EntryPool) /\ Len(ret) = MaxCalls
    /\ scanner.cache = <<{"envs", "ports", "labels"}>>

-----------------------------------------------------------------------------
(* Termination of ParseFile.                                               *)

CursorBlocks ==
    { <<"b:">>,
      <<"c: [">>,
      <<"  - i ]">>,
      <<"">>,
      <<"##########">>,
      <<"# Docker">>,
      <<"d_paths_folders_list:">>,
      <<"# P - Sub-section Start", "# P - Sub-section End">> }

InitCursor == InitParse(CursorBlocks)

SpecCursor == InitCursor /\ [][Next]_vars

\* the cursor that multi-line value reconstruction returns for the definition
\* at the cursor
ValueCursor ==
    LET m == variableRe(CurLine)
    IN IF shouldSkipVariable(m[1], state.PendingComment)
       THEN consumeMultilineValue(lines, lineNum + 1, m[2])
       ELSE parseMultilineValue(lines, lineNum, m[2]).newLineNum

\* the rules of the main loop: one of them applies to every line
LineKinds ==
    {"blank", "header", "subsectionStart", "subsectionEnd", "comment", "variable", "other"}

\* C28: an iteration is made only while the cursor is before the end, and it
\* moves the cursor forward by at least one line and never past the end (the
\* header lookahead included); value reconstruction returns a cursor after the
\* defining line and within the lines; while the cursor is before the end a
\* rule of the loop applies to the line under it.  Len(lines) - lineNum is
\* then a natural number that every iteration decreases, so the loop makes at
\* most Len(lines) iterations and stops with the cursor at the end.
C28_ParsingTerminates ==
    /\ [][lineNum < Len(lines) /\ lineNum' > lineNum /\ lineNum' <= Len(lines)]_vars
    /\ [](lineNum <= Len(lines))
    /\ []((Parsing /\ LineKind(CurLine) = "variable") =>
             (ValueCursor > lineNum /\ ValueCursor <= Len(lines)))
    /\ [](lineNum < Len(lines) => (Parsing /\ LineKind(CurLine) \in LineKinds))

C28_Witness ==
    /\ lines = <<"c: [", "  - i ]", "##########", "# Docker">>
    /\ lineNum = 4
    /\ Len(AllVars) = 1 /\ AllVars[1].ValueLines = <<"[", "  - i ]">>
    /\ role.SectionOrder = <<"Docker">>

-----------------------------------------------------------------------------
(* The lines that bare-continuation mode consumes.                         *)

ContinueBlocks ==
    { <<"##########", "# D", "# P - Sub-section Start", "# P - Sub-section End", "">>,
      <<"a: 1">>,
      <<"d_paths_folders_list: 2">>,
      <<"  key: v">>,
      <<"  - i">>,
      <<"  ">>,
      <<"  # c: d">>,
      <<"  # e">> }

InitContinue == InitParse(ContinueBlocks)

SpecContinue == InitContinue /\ [][Next]_vars

\* line begins with a space or a tab and is not a comment without a colon
Continues(line) ==
    /\ Len(line) > 0 /\ Char(line, 1) \in {" ", "\t"}
    /\ ~(HasPrefix(TrimSpace(line), "#") /\ ~Contains(TrimSpace(line), ":"))

\* the number of consecutive lines from the 0-based index i on that continue
RECURSIVE ContinuingRun(_)
ContinuingRun(i) ==
    IF i < Len(lines) /\ Continues(Line(lines, i)) THEN 1 + ContinuingRun(i + 1) ELSE 0

-----------------------------------------------------------------------------
(* allVariables and the collections of the sections.                       *)

\* the number of elements of the sequence vs that equal v
CountIn(vs, v) == Cardinality({i \in 1..Len(vs) : vs[i] = v})

\* the number of places that v takes in the collections of one section: its
\* top-level list and the lists of its subsections
CountInSection(section, v) ==
    LET subs == DOMAIN section.Subsections
        RECURSIVE Sum(_)
        Sum(S) == IF S = {} THEN 0
                  ELSE LET n == CHOOSE n \in S : TRUE
                       IN CountIn(section.Subsections[n], v) + Sum(S \ {n})
    IN CountIn(section.Variables, v) + Sum(subs)

\* the number of places that v takes in the collections of all sections
RECURSIVE CountInSections(_, _)
CountInSections(names, v) ==
    IF names = {} THEN 0
    ELSE LET n == CHOOSE n \in names : TRUE
         IN CountInSection(role.Sections[n], v) + CountInSections(names \ {n}, v)

\* the Variables held by the sections
HeldBySections ==
    UNION {Range(role.Sections[n].Variables)
              \cup UNION {Range(role.Sections[n].Subsections[s]) :
                             s \in DOMAIN role.Sections[n].Subsections} :
           n \in DOMAIN role.Sections}

\* C30: after every processed line, every emitted Variable is once in
\* allVariables and in at most one place of the section collections, every
\* Variable held by a section is an element of allVariables, allVariables is
\* in strictly increasing lineNumber order, and a Variable defined before any
\* section was opened has section "" and is held by no section.
C30_OneHomePerVariable ==
    /\ \A i \in 1..Len(AllVars) :
          /\ CountIn(AllVars, AllVars[i]) = 1
          /\ CountInSections(DOMAIN role.Sections, AllVars[i]) <= 1
          /\ AllVars[i].Section \notin DOMAIN role.Sections =>
                /\ AllVars[i].Section = ""
                /\ CountInSections(DOMAIN role.Sections, AllVars[i]) = 0
          /\ AllVars[i].Section = "" => AllVars[i] \notin HeldBySections
    /\ HeldBySections \subseteq Range(AllVars)
    /\ \A i, j \in 1..Len(AllVars) : i < j => AllVars[i].LineNumber < AllVars[j].LineNumber

C30_Witness ==
    /\ lines = <<"a: 1", "##########", "# Web", "# Ports - Sub-section Start", "a: 1">>
    /\ lineNum = 5
    /\ Len(AllVars) = 2
    /\ AllVars[1].Section = "" /\ AllVars[2].Section = "Web"
    /\ role.Sections["Web"].Variables = <<>>
    /\ role.Sections["Web"].Subsections["Ports"] = <<AllVars[2]>>

====
